---- MODULE Spec2Model ----
(***************************************************************************)
(* yahoo-equity-crawler: the state locator, the quote-list finder and the  *)
(* record normalizer of infrastructure/yahoo/parser.py, with the feed-side *)
(* normalizer of infrastructure/yahoo/screener_client.py.                  *)
(*                                                                         *)
(* JSON values are tagged records.  A Python str is a sequence of text     *)
(* tokens: a token is one character ("{", "\"", a digit, ...) or one word  *)
(* of letters taken as a unit ("quotes", "Screener"), so that substring    *)
(* tests and str() are computed on the text and not looked up.             *)
(***************************************************************************)
EXTENDS Integers, Sequences, FiniteSets, TLC

VARIABLES
    mode,         \* which input the run works on: "html" | "feed"
    pc,           \* position of the run
    state,        \* extract_quotes: the state tree handed in
    tried,        \* extract_quotes: the strategies whose candidates were computed, in order
    best,         \* extract_quotes: the candidate picked by the strategy that returned
    quotes,       \* extract_quotes: the list returned
    err,          \* the RuntimeError raised, NoErr when none
    rows,         \* normalize_equities: the EquityRow values returned
    rows_data,    \* run_crawl: [asdict(row) for row in rows]
    rerun,        \* normalize_equities applied to rows_data, as dicts again
    records,      \* fetch_all: the records of the page being processed
    normalized,   \* fetch_all: _normalize_item(item) for each item of that page
    seen,         \* fetch_all: the rows kept, in insertion order
    fstats,       \* fetch_all: total_items, duplicates, pages, total_expected, offset
    page,         \* extract_embedded_state: the page source
    located,      \* extract_embedded_state: the state returned
    attempted,    \* extract_embedded_state: the conventions tried, in order
    artifacts,    \* the diagnostic files written
    call_text,    \* _extract_balanced_json: the text handed in
    call_index,   \* _extract_balanced_json: the start index handed in (from 1)
    call_result,  \* _extract_balanced_json: the substring returned, or the error
    seed_url,     \* the URL the page's seed script was written for
    raw_criteria, \* the criteria object encoded in the page's seed script
    seed,         \* extract_screener_seed: the (url, criteria) returned
    fetched,      \* enrich_rows: what fetch_quotes gets for the batch of symbols
    enriched,     \* enrich_rows: the rows returned
    enrich_stats, \* enrich_rows: the statistics returned
    strict,       \* run_crawl: settings.strict
    feed_result,  \* run_crawl: what screener.fetch_all() did, None before the call
    crawl_source, \* run_crawl: source
    state_source, \* run_crawl: state_source
    retried,      \* run_crawl: the runtime state replaced the state (lines 133-136)
    csv,          \* the output file: None until it is opened, then the lines written
    raised,       \* run_crawl: the exception that left run_crawl, None when none
    requested,    \* fetch_all: the offsets passed to fetch_page, in order
    walk_stack,   \* _find_quote_lists: stack
    walk_found,   \* _find_quote_lists: candidates
    expanded,     \* _find_quote_lists: the paths of the nodes whose children were looked at
    walk_base,    \* _find_quote_lists: base_path
    max_attempts, \* _request_with_retry: self._max_attempts
    attempt,      \* _request_with_retry: attempt, 0 before the first
    sleeps,       \* _request_with_retry: the calls of time.sleep so far
    responses,    \* _request_with_retry: what the session did, attempt by attempt
    retry_result, \* _request_with_retry: what it returned
    quits,        \* run_crawl: the calls of driver.quit() so far
    quit_failed,  \* run_crawl: driver.quit() raised
    supplied_region,   \* YahooScreenerClient(region=...)
    supplied_criteria, \* YahooScreenerClient(criteria=...)
    client,       \* the client: self._region and self._criteria, None before __init__
    posted        \* fetch_page: the requests made, in order

seed_vars == <<seed_url, raw_criteria, seed>>

enrich_vars == <<fetched, enriched, enrich_stats>>

\* the variables of the functions called on their own
crawl_vars == <<strict, feed_result, crawl_source, state_source, retried, csv, raised>>

walk_vars == <<walk_stack, walk_found, expanded, walk_base>>

retry_vars == <<max_attempts, attempt, sleeps, responses, retry_result>>

driver_vars == <<quits, quit_failed>>

client_vars == <<supplied_region, supplied_criteria, client, posted>>

side_vars == <<walk_vars, retry_vars, driver_vars, client_vars>>

\* what fetch_all leaves alone
own_vars == <<call_text, call_index, call_result, seed_vars, enrich_vars, crawl_vars,
              side_vars>>

call_vars == <<own_vars, requested>>

vars == <<mode, pc, state, tried, best, quotes, err, rows, rows_data, rerun,
          records, normalized, seen, fstats, page, located, attempted, artifacts,
          call_vars>>

-----------------------------------------------------------------------------
(* Python values *)

None == [t |-> "null"]
Num(n) == [t |-> "num", n |-> n]
Str(s) == [t |-> "str", s |-> s]
Bool(b) == [t |-> "bool", b |-> b]
List(xs) == [t |-> "list", xs |-> xs]
Dict(kv) == [t |-> "dict", kv |-> kv]

\* a str of one word
W(w) == <<w>>
\* a str value of one word
SW(w) == Str(<<w>>)

IsDict(v) == v.t = "dict"
IsList(v) == v.t = "list"
IsStr(v) == v.t = "str"

\* bool(v)
Truthy(v) ==
    CASE v.t = "null" -> FALSE
      [] v.t = "num" -> v.n # 0
      [] v.t = "str" -> v.s # <<>>
      [] v.t = "bool" -> v.b
      [] v.t = "list" -> v.xs # <<>>
      [] v.t = "dict" -> v.kv # <<>>

\* a or b
PyOr(a, b) == IF Truthy(a) THEN a ELSE b

\* key in d
HasKey(d, key) == \E i \in 1..Len(d.kv) : d.kv[i][1] = key

\* d.get(key)
Get(d, key) ==
    IF HasKey(d, key)
    THEN d.kv[CHOOSE i \in 1..Len(d.kv) : d.kv[i][1] = key][2]
    ELSE None

\* list(d.keys()), list(d.values())
Keys(d) == [i \in 1..Len(d.kv) |-> d.kv[i][1]]
Values(d) == [i \in 1..Len(d.kv) |-> d.kv[i][2]]

RECURSIVE Flatten(_)
Flatten(ss) == IF ss = <<>> THEN <<>> ELSE Head(ss) \o Flatten(Tail(ss))

\* needle in hay, for str
IsInfix(needle, hay) ==
    \E i \in 0..(Len(hay) - Len(needle)) :
        \A j \in 1..Len(needle) : hay[i + j] = needle[j]

Digits == <<"0", "1", "2", "3", "4", "5", "6", "7", "8", "9">>

\* str(n) for an int n >= 0
RECURSIVE IntStr(_)
IntStr(n) ==
    IF n < 10 THEN <<Digits[n + 1]>>
    ELSE IntStr(n \div 10) \o <<Digits[(n % 10) + 1]>>

\* repr(v), and ", ".join of the reprs
RECURSIVE PyRepr(_)
RECURSIVE ReprItems(_)
RECURSIVE ReprPairs(_)
PyRepr(v) ==
    CASE v.t = "null" -> <<"None">>
      [] v.t = "num" -> IntStr(v.n)
      [] v.t = "str" -> <<"'">> \o v.s \o <<"'">>
      [] v.t = "bool" -> IF v.b THEN <<"True">> ELSE <<"False">>
      [] v.t = "list" -> <<"[">> \o ReprItems(v.xs) \o <<"]">>
      [] v.t = "dict" -> <<"{">> \o ReprPairs(v.kv) \o <<"}">>
ReprItems(xs) ==
    IF xs = <<>> THEN <<>>
    ELSE PyRepr(Head(xs))
         \o (IF Len(xs) > 1 THEN <<",", " ">> ELSE <<>>) \o ReprItems(Tail(xs))
ReprPairs(kv) ==
    IF kv = <<>> THEN <<>>
    ELSE <<"'">> \o Head(kv)[1] \o <<"'", ":", " ">> \o PyRepr(Head(kv)[2])
         \o (IF Len(kv) > 1 THEN <<",", " ">> ELSE <<>>) \o ReprPairs(Tail(kv))

\* str(v)
PyStr(v) == IF IsStr(v) THEN v ELSE Str(PyRepr(v))

-----------------------------------------------------------------------------
(* parser.py: helpers of the finder and the normalizer *)

_normalize_value_fmt_first(value) ==
    IF IsDict(value) /\ HasKey(value, W("fmt")) THEN Get(value, W("fmt"))
    ELSE IF IsDict(value) /\ HasKey(value, W("raw")) THEN Get(value, W("raw"))
    ELSE value

_normalize_value(value) ==
    IF IsDict(value) /\ HasKey(value, W("raw")) THEN Get(value, W("raw"))
    ELSE IF IsDict(value) /\ HasKey(value, W("fmt")) THEN Get(value, W("fmt"))
    ELSE value

RECURSIVE _first_non_empty(_)
_first_non_empty(values) ==
    IF values = <<>> THEN None
    ELSE IF Truthy(Head(values)) THEN PyStr(Head(values))
    ELSE _first_non_empty(Tail(values))

_coerce_quotes(q) ==
    IF IsList(q) THEN q.xs ELSE IF IsDict(q) THEN Values(q) ELSE <<>>

safe_keys_limit == 40

_safe_keys(data) ==
    IF ~IsDict(data) THEN <<>>
    ELSE SubSeq(Keys(data), 1,
                IF Len(data.kv) < safe_keys_limit THEN Len(data.kv) ELSE safe_keys_limit)

\* path parts: a str key or an int index
K(w) == [k |-> <<w>>]
KS(s) == [k |-> s]
Ix(i) == [i |-> i]
IsKeyPart(p) == DOMAIN p = {"k"}

ScreenerResultsStore == <<"Screener", "Results", "Store">>
ScreenerStore == <<"Screener", "Store">>

_KNOWN_PATHS ==
    << <<K("context"), K("dispatcher"), K("stores"), KS(ScreenerResultsStore),
         K("results"), K("quotes")>>,
       <<K("context"), K("dispatcher"), K("stores"), KS(ScreenerResultsStore),
         K("results"), K("finance"), K("result"), Ix(0), K("quotes")>>,
       <<K("context"), K("dispatcher"), K("stores"), KS(ScreenerResultsStore),
         K("quotes")>>,
       <<K("context"), K("dispatcher"), K("stores"), KS(ScreenerResultsStore),
         K("results")>>,
       <<K("context"), K("dispatcher"), K("stores"), KS(ScreenerStore),
         K("results"), K("quotes")>>,
       <<K("context"), K("dispatcher"), K("stores"), KS(ScreenerStore),
         K("quotes")>>,
       <<K("context"), K("dispatcher"), K("stores"), KS(ScreenerStore),
         K("results")>> >>

RECURSIVE _get_path(_, _)
_get_path(data, path) ==
    IF path = <<>> THEN data
    ELSE LET part == Head(path) IN
         IF ~IsKeyPart(part)
         THEN IF ~IsList(data) \/ part.i >= Len(data.xs) THEN None
              ELSE _get_path(data.xs[part.i + 1], Tail(path))
         ELSE IF ~IsDict(data) THEN None
              ELSE IF ~HasKey(data, part.k) THEN None
              ELSE _get_path(Get(data, part.k), Tail(path))

\* the join with only the last str part taken
JoinDots_last(parts) == IF parts = <<>> THEN <<>> ELSE parts[Len(parts)].k

\* ".".join(str(part) for part in path if isinstance(part, str))
RECURSIVE JoinDots(_)
JoinDots(parts) ==
    IF parts = <<>> THEN <<>>
    ELSE IF Len(parts) = 1 THEN Head(parts).k
    ELSE Head(parts).k \o <<".">> \o JoinDots(Tail(parts))

PathStr(path) == JoinDots(SelectSeq(path, IsKeyPart))

\* the loop of _score_quote_list with 2 for every hit and nothing for its fields
RECURSIVE ScoreItems_two_each(_)
ScoreItems_two_each(items) ==
    IF items = <<>> THEN <<0, 0>>
    ELSE LET item == Head(items)
             rest == ScoreItems_two_each(Tail(items))
         IN IF ~IsDict(item) THEN rest
            ELSE IF Truthy(PyOr(Get(item, W("symbol")), Get(item, W("ticker"))))
            THEN <<rest[1] + 1, rest[2] + 2>>
            ELSE rest

\* the loop of _score_quote_list: <<symbol_hits, score>>
RECURSIVE ScoreItems(_)
ScoreItems(items) ==
    IF items = <<>> THEN <<0, 0>>
    ELSE LET item == Head(items)
             rest == ScoreItems(Tail(items))
         IN IF ~IsDict(item) THEN rest
            ELSE IF Truthy(PyOr(Get(item, W("symbol")), Get(item, W("ticker"))))
            THEN << rest[1] + 1,
                    rest[2] + 2
                    + (IF _normalize_value(Get(item, W("regularMarketPrice"))) # None
                       THEN 1 ELSE 0)
                    + (IF _normalize_value(Get(item, W("marketCap"))) # None
                       THEN 1 ELSE 0) >>
            ELSE rest

\* lines 434-458 with a list that has no symbol hit scored like any other
_score_quote_list_no_hit_cut(items, path) ==
    IF items = <<>> THEN 0
    ELSE LET hs == ScoreItems(items)
             path_str == PathStr(path)
         IN hs[2] + 1
            + (IF IsInfix(W("Screener"), path_str) THEN 10 ELSE 0)
            + (IF IsInfix(W("quotes"), path_str) THEN 5 ELSE 0)
            + (IF IsInfix(W("results"), path_str) THEN 2 ELSE 0)

_score_quote_list(items, path) ==
    IF items = <<>> THEN 0
    ELSE LET hs == ScoreItems(items)
             path_str == PathStr(path)
         IN IF hs[1] = 0 THEN 0
            ELSE hs[2]
                 + (IF IsInfix(W("Screener"), path_str) THEN 10 ELSE 0)
                 + (IF IsInfix(W("quotes"), path_str) THEN 5 ELSE 0)
                 + (IF IsInfix(W("results"), path_str) THEN 2 ELSE 0)

\* a candidate tuple (score, path, list)
Cand(score, path, list) == [score |-> score, path |-> path, list |-> list]
NoCand == [score |-> -1]

max_depth == 16

\* the candidates appended, and the nodes pushed, while a dict node is expanded
DictCandidates(node, path) ==
    Flatten([i \in 1..Len(node.kv) |->
        LET key == node.kv[i][1]
            value == node.kv[i][2]
            next_path == Append(path, KS(key))
        IN IF IsList(value)
           THEN IF _score_quote_list(value.xs, next_path) # 0
                THEN <<Cand(_score_quote_list(value.xs, next_path), next_path, value.xs)>>
                ELSE <<>>
           ELSE IF key = W("quotes") /\ IsDict(value)
           THEN IF _score_quote_list(Values(value), next_path) # 0
                THEN <<Cand(_score_quote_list(Values(value), next_path), next_path,
                            Values(value))>>
                ELSE <<>>
           ELSE <<>>])

DictPushes(node, path) ==
    Flatten([i \in 1..Len(node.kv) |->
        IF IsDict(node.kv[i][2]) \/ IsList(node.kv[i][2])
        THEN << <<node.kv[i][2], Append(path, KS(node.kv[i][1]))>> >>
        ELSE <<>>])

ListPushes(node, path) ==
    Flatten([i \in 1..Len(node.xs) |->
        IF IsDict(node.xs[i]) \/ IsList(node.xs[i])
        THEN << <<node.xs[i], Append(path, Ix(i - 1))>> >>
        ELSE <<>>])

\* the while loop of _find_quote_lists, giving up one level early
RECURSIVE FindLoop_early(_, _)
FindLoop_early(stack, candidates) ==
    IF stack = <<>> THEN candidates
    ELSE LET node == stack[Len(stack)][1]
             path == stack[Len(stack)][2]
             rest == SubSeq(stack, 1, Len(stack) - 1)
         IN IF Len(path) >= max_depth THEN FindLoop_early(rest, candidates)
            ELSE IF IsDict(node)
            THEN FindLoop_early(rest \o DictPushes(node, path),
                                candidates \o DictCandidates(node, path))
            ELSE IF IsList(node)
            THEN FindLoop_early(rest \o ListPushes(node, path), candidates)
            ELSE FindLoop_early(rest, candidates)

\* the while loop of _find_quote_lists
RECURSIVE FindLoop(_, _)
FindLoop(stack, candidates) ==
    IF stack = <<>> THEN candidates
    ELSE LET node == stack[Len(stack)][1]
             path == stack[Len(stack)][2]
             rest == SubSeq(stack, 1, Len(stack) - 1)
         IN IF Len(path) > max_depth THEN FindLoop(rest, candidates)
            ELSE IF IsDict(node)
            THEN FindLoop(rest \o DictPushes(node, path),
                          candidates \o DictCandidates(node, path))
            ELSE IF IsList(node)
            THEN FindLoop(rest \o ListPushes(node, path), candidates)
            ELSE FindLoop(rest, candidates)

_find_quote_lists(data, base_path) == FindLoop(<< <<data, base_path>> >>, <<>>)

\* the loop of _pick_best_candidate with the tie on length left out
RECURSIVE PickLoop_score_only(_, _)
PickLoop_score_only(candidates, bestSoFar) ==
    IF candidates = <<>> THEN bestSoFar
    ELSE LET candidate == Head(candidates) IN
         IF bestSoFar = NoCand THEN PickLoop_score_only(Tail(candidates), candidate)
         ELSE IF candidate.score > bestSoFar.score
         THEN PickLoop_score_only(Tail(candidates), candidate)
         ELSE PickLoop_score_only(Tail(candidates), bestSoFar)

_pick_best_candidate_score_only(candidates) == PickLoop_score_only(candidates, NoCand)

\* the loop of _pick_best_candidate
RECURSIVE PickLoop(_, _)
PickLoop(candidates, bestSoFar) ==
    IF candidates = <<>> THEN bestSoFar
    ELSE LET candidate == Head(candidates) IN
         IF bestSoFar = NoCand THEN PickLoop(Tail(candidates), candidate)
         ELSE IF candidate.score > bestSoFar.score
         THEN PickLoop(Tail(candidates), candidate)
         ELSE IF candidate.score = bestSoFar.score
                 /\ Len(candidate.list) > Len(bestSoFar.list)
         THEN PickLoop(Tail(candidates), candidate)
         ELSE PickLoop(Tail(candidates), bestSoFar)

_pick_best_candidate(candidates) == PickLoop(candidates, NoCand)

KnownPathCandidate(st, path) ==
    LET value0 == _get_path(st, path)
        viaQuotes == IsDict(value0) /\ HasKey(value0, W("quotes"))
        value1 == IF viaQuotes THEN Get(value0, W("quotes")) ELSE value0
        path1 == IF viaQuotes THEN Append(path, K("quotes")) ELSE path
        value2 == IF IsDict(value1) THEN List(Values(value1)) ELSE value1
    IN IF IsList(value2) /\ _score_quote_list(value2.xs, path1) # 0
       THEN <<Cand(_score_quote_list(value2.xs, path1), path1, value2.xs)>>
       ELSE <<>>

_candidates_from_known_paths(st) ==
    Flatten([i \in 1..Len(_KNOWN_PATHS) |-> KnownPathCandidate(st, _KNOWN_PATHS[i])])

-----------------------------------------------------------------------------
(* parser.py: extract_quotes, one strategy at a time *)

StoresPath == <<K("context"), K("dispatcher"), K("stores")>>

SectionPaths ==
    << <<K("props"), K("pageProps")>>, <<K("pageProps")>>, <<K("props")>> >>

SectionPc == <<"section_1", "section_2", "section_3">>

NoErr == [kind |-> "none"]

QuotesNotFound_top_keys_twice(st) ==
    [kind |-> "QuotesNotFound",
     top_keys |-> _safe_keys(st),
     store_keys |-> _safe_keys(st)]

QuotesNotFound(st) ==
    LET stores == _get_path(st, StoresPath) IN
    [kind |-> "QuotesNotFound",
     top_keys |-> _safe_keys(st),
     store_keys |-> IF IsDict(stores) THEN _safe_keys(stores) ELSE <<>>]

\* `return _coerce_quotes(best[2])`
ReturnQuotes(b) ==
    /\ best' = b
    /\ quotes' = _coerce_quotes(List(b.list))
    /\ pc' = "quotes_found"

\* lines 92-95 with the scoped searches passed over
TryKnownPaths_then_whole ==
    /\ pc = "known"
    /\ LET b == _pick_best_candidate(_candidates_from_known_paths(state)) IN
       /\ tried' = Append(tried, "known")
       /\ IF b # NoCand THEN ReturnQuotes(b)
          ELSE /\ pc' = "whole"
               /\ UNCHANGED <<best, quotes>>
    /\ UNCHANGED call_vars
    /\ UNCHANGED <<mode, state, err, rows, rows_data, rerun, records, normalized,
                   seen, fstats, page, located,
                   attempted, artifacts>>

\* lines 92-95
TryKnownPaths ==
    /\ pc = "known"
    /\ LET b == _pick_best_candidate(_candidates_from_known_paths(state)) IN
       /\ tried' = Append(tried, "known")
       /\ IF b # NoCand THEN ReturnQuotes(b)
          ELSE /\ pc' = "stores"
               /\ UNCHANGED <<best, quotes>>
    /\ UNCHANGED call_vars
    /\ UNCHANGED <<mode, state, err, rows, rows_data, rerun, records, normalized,
                   seen, fstats, page, located,
                   attempted, artifacts>>

\* lines 97-101
TryStores ==
    /\ pc = "stores"
    /\ LET stores == _get_path(state, StoresPath) IN
       IF IsDict(stores)
       THEN LET b == _pick_best_candidate(_find_quote_lists(stores, StoresPath)) IN
            /\ tried' = Append(tried, "stores")
            /\ IF b # NoCand THEN ReturnQuotes(b)
               ELSE /\ pc' = SectionPc[1]
                    /\ UNCHANGED <<best, quotes>>
       ELSE /\ pc' = SectionPc[1]
            /\ UNCHANGED <<tried, best, quotes>>
    /\ UNCHANGED call_vars
    /\ UNCHANGED <<mode, state, err, rows, rows_data, rerun, records, normalized,
                   seen, fstats, page, located,
                   attempted, artifacts>>

\* lines 103-108, one turn of the loop
TrySection ==
    /\ \E i \in 1..Len(SectionPaths) :
        /\ pc = SectionPc[i]
        /\ LET section == _get_path(state, SectionPaths[i])
               after == IF i < Len(SectionPaths) THEN SectionPc[i + 1] ELSE "whole"
           IN IF IsDict(section) \/ IsList(section)
              THEN LET b == _pick_best_candidate(
                                _find_quote_lists(section, SectionPaths[i])) IN
                   /\ tried' = Append(tried, SectionPc[i])
                   /\ IF b # NoCand THEN ReturnQuotes(b)
                      ELSE /\ pc' = after
                           /\ UNCHANGED <<best, quotes>>
              ELSE /\ pc' = after
                   /\ UNCHANGED <<tried, best, quotes>>
    /\ UNCHANGED call_vars
    /\ UNCHANGED <<mode, state, err, rows, rows_data, rerun, records, normalized,
                   seen, fstats, page, located,
                   attempted, artifacts>>

\* lines 110-120
TryWholeTree ==
    /\ pc = "whole"
    /\ LET b == _pick_best_candidate(_find_quote_lists(state, <<>>)) IN
       /\ tried' = Append(tried, "whole")
       /\ IF b # NoCand
          THEN /\ ReturnQuotes(b)
               /\ UNCHANGED err
          ELSE /\ pc' = "quotes_failed"
               /\ err' = QuotesNotFound(state)
               /\ UNCHANGED <<best, quotes>>
    /\ UNCHANGED call_vars
    /\ UNCHANGED <<mode, state, rows, rows_data, rerun, records, normalized,
                   seen, fstats, page, located,
                   attempted, artifacts>>

-----------------------------------------------------------------------------
(* parser.py: normalize_equities *)

EquityRow(symbol, name, exchange, market_cap, price, currency) ==
    [symbol |-> symbol, name |-> name, exchange |-> exchange,
     market_cap |-> market_cap, price |-> price, currency |-> currency]

\* lines 144-152 with the previous close taken first
PriceValue_close_first(quote) ==
    IF Get(quote, W("regularMarketPreviousClose")) # None
    THEN Get(quote, W("regularMarketPreviousClose"))
    ELSE IF Get(quote, W("regularMarketPrice")) # None
    THEN Get(quote, W("regularMarketPrice"))
    ELSE PyOr(Get(quote, W("price")), Get(quote, W("lastPrice")))

\* lines 144-152: price_value
PriceValue(quote) ==
    IF Get(quote, W("regularMarketPrice")) # None
    THEN Get(quote, W("regularMarketPrice"))
    ELSE IF Get(quote, W("regularMarketPreviousClose")) # None
    THEN Get(quote, W("regularMarketPreviousClose"))
    ELSE PyOr(Get(quote, W("price")), Get(quote, W("lastPrice")))

\* lines 127-131: the element is skipped
SkipsQuote_symbol_only(quote) ==
    \/ ~IsDict(quote)
    \/ ~HasKey(quote, W("symbol"))

SkipsQuote(quote) ==
    \/ ~IsDict(quote)
    \/ ~Truthy(PyOr(Get(quote, W("symbol")), Get(quote, W("ticker"))))

\* lines 129-164 with the key name left out of the names tried
RowOf_without_name(quote) ==
    EquityRow(
        PyStr(PyOr(Get(quote, W("symbol")), Get(quote, W("ticker")))),
        _first_non_empty(<<Get(quote, W("shortName")), Get(quote, W("longName")),
                           Get(quote, W("displayName"))>>),
        _first_non_empty(<<Get(quote, W("exchange")), Get(quote, W("fullExchangeName")),
                           Get(quote, W("exchangeName"))>>),
        _normalize_value(Get(quote, W("marketCap"))),
        _normalize_value(PriceValue(quote)),
        Get(quote, W("currency")))

\* lines 129-164: the row of an element that is kept
RowOf(quote) ==
    EquityRow(
        PyStr(PyOr(Get(quote, W("symbol")), Get(quote, W("ticker")))),
        _first_non_empty(<<Get(quote, W("shortName")), Get(quote, W("longName")),
                           Get(quote, W("name")), Get(quote, W("displayName"))>>),
        _first_non_empty(<<Get(quote, W("exchange")), Get(quote, W("fullExchangeName")),
                           Get(quote, W("exchangeName"))>>),
        _normalize_value(Get(quote, W("marketCap"))),
        _normalize_value(PriceValue(quote)),
        Get(quote, W("currency")))

RECURSIVE normalize_equities(_)
normalize_equities(qs) ==
    IF qs = <<>> THEN <<>>
    ELSE IF SkipsQuote(Head(qs)) THEN normalize_equities(Tail(qs))
    ELSE <<RowOf(Head(qs))>> \o normalize_equities(Tail(qs))

\* dataclasses.asdict(row)
asdict(row) ==
    Dict(<< <<W("symbol"), row.symbol>>, <<W("name"), row.name>>,
            <<W("exchange"), row.exchange>>, <<W("market_cap"), row.market_cap>>,
            <<W("price"), row.price>>, <<W("currency"), row.currency>> >>)

AsDicts(rs) == [i \in 1..Len(rs) |-> asdict(rs[i])]

\* run_crawl line 124 (and 136): rows = normalize_equities(quotes)
NormalizeEquities ==
    /\ pc = "quotes_found"
    /\ rows' = normalize_equities(quotes)
    /\ pc' = "normalized"
    /\ UNCHANGED call_vars
    /\ UNCHANGED <<mode, state, tried, best, quotes, err, rows_data, rerun, records,
                   normalized, seen, fstats, page, located,
                   attempted, artifacts>>

\* run_crawl line 146: rows_data = [asdict(row) for row in rows]
AsDictRows ==
    /\ pc = "normalized"
    /\ rows_data' = AsDicts(rows)
    /\ pc' = "rows_data"
    /\ UNCHANGED call_vars
    /\ UNCHANGED <<mode, state, tried, best, quotes, err, rows, rerun, records,
                   normalized, seen, fstats, page, located,
                   attempted, artifacts>>

\* the normalizer run again on its own output
Renormalize ==
    /\ pc = "rows_data"
    /\ rerun' = AsDicts(normalize_equities(rows_data))
    /\ pc' = "renormalized"
    /\ UNCHANGED call_vars
    /\ UNCHANGED <<mode, state, tried, best, quotes, err, rows, rows_data, records,
                   normalized, seen, fstats, page, located,
                   attempted, artifacts>>

-----------------------------------------------------------------------------
(* screener_client.py: the feed-side normalizer and fetch_all *)

_normalize_value_sc(value) ==
    IF IsDict(value) /\ HasKey(value, W("raw")) THEN Get(value, W("raw"))
    ELSE IF IsDict(value) /\ HasKey(value, W("fmt")) THEN Get(value, W("fmt"))
    ELSE value

RECURSIVE _first_non_empty_sc(_)
_first_non_empty_sc(values) ==
    IF values = <<>> THEN None
    ELSE IF Truthy(Head(values)) THEN PyStr(Head(values))
    ELSE _first_non_empty_sc(Tail(values))

\* lines 315-321: price_value
ItemPriceValue(item) ==
    IF Get(item, W("regularMarketPrice")) # None
    THEN Get(item, W("regularMarketPrice"))
    ELSE IF Get(item, W("regularMarketPreviousClose")) # None
    THEN Get(item, W("regularMarketPreviousClose"))
    ELSE PyOr(Get(item, W("price")), Get(item, W("lastPrice")))

_normalize_item(item) ==
    IF ~IsDict(item) THEN None
    ELSE IF ~Truthy(PyOr(Get(item, W("ticker")), Get(item, W("symbol")))) THEN None
    ELSE Dict(<< <<W("symbol"),
                   PyStr(PyOr(Get(item, W("ticker")), Get(item, W("symbol"))))>>,
                 <<W("name"),
                   _first_non_empty_sc(<<Get(item, W("companyName")),
                       Get(item, W("shortName")), Get(item, W("longName")),
                       Get(item, W("name"))>>)>>,
                 <<W("exchange"),
                   _first_non_empty_sc(<<Get(item, W("exchange")),
                       Get(item, W("fullExchangeName"))>>)>>,
                 <<W("market_cap"), _normalize_value_sc(Get(item, W("marketCap")))>>,
                 <<W("price"), _normalize_value_sc(ItemPriceValue(item))>>,
                 <<W("currency"),
                   _first_non_empty_sc(<<Get(item, W("currency")),
                       Get(item, W("financialCurrency"))>>)>> >>)

\* payload.get("finance", {}).get("result"), None when that raises AttributeError
Raises == [t |-> "raises"]

FinanceResult(payload) ==
    IF ~IsDict(payload) THEN Raises
    ELSE IF ~HasKey(payload, W("finance")) THEN None
    ELSE IF ~IsDict(Get(payload, W("finance"))) THEN Raises
    ELSE Get(Get(payload, W("finance")), W("result"))

\* the list returned, or Raises
_extract_items(payload) ==
    LET result == FinanceResult(payload) IN
    IF result = Raises THEN Raises
    ELSE IF ~IsList(result) \/ result.xs = <<>> THEN Raises
    ELSE IF ~IsDict(result.xs[1]) THEN Raises
    ELSE LET items0 == PyOr(Get(result.xs[1], W("records")),
                            Get(result.xs[1], W("quotes")))
             items == IF IsDict(items0) THEN List(Values(items0)) ELSE items0
         IN IF ~IsList(items) THEN Raises ELSE items

RECURSIVE DigitsValue(_)
DigitsValue(s) ==
    IF s = <<>> THEN 0
    ELSE DigitsValue(SubSeq(s, 1, Len(s) - 1)) * 10
         + ((CHOOSE d \in 1..10 : Digits[d] = s[Len(s)]) - 1)

IsDigits(s) ==
    /\ s # <<>>
    /\ \A i \in 1..Len(s) : \E d \in 1..10 : Digits[d] = s[i]

\* int(total), None when int() raises TypeError or ValueError
_extract_total(payload) ==
    LET result == FinanceResult(payload) IN
    IF result = Raises THEN Raises
    ELSE IF ~IsList(result) \/ result.xs = <<>> THEN None
    ELSE IF ~IsDict(result.xs[1]) THEN None
    ELSE LET total == Get(result.xs[1], W("total")) IN
         IF total.t = "num" THEN total
         ELSE IF total.t = "bool" THEN Num(IF total.b THEN 1 ELSE 0)
         ELSE IF total.t = "str" /\ IsDigits(total.s) THEN Num(DigitsValue(total.s))
         ELSE None

\* the page size of the client (self._count), here that of the test's base_url
count == 2
max_pages == 2
max_items == 100000

SeenSymbols(sn) == {Get(sn[i], W("symbol")) : i \in 1..Len(sn)}

\* lines 140-150 with the row of a symbol seen before put in the place of the first
RECURSIVE PageLoop_last_kept(_, _, _, _)
PageLoop_last_kept(items, sn, dups, new_items) ==
    IF items = <<>> THEN <<sn, dups, new_items>>
    ELSE LET row == _normalize_item(Head(items)) IN
         IF ~Truthy(row) THEN PageLoop_last_kept(Tail(items), sn, dups, new_items)
         ELSE IF Get(row, W("symbol")) \in SeenSymbols(sn)
         THEN PageLoop_last_kept(
                  Tail(items),
                  [i \in 1..Len(sn) |->
                      IF Get(sn[i], W("symbol")) = Get(row, W("symbol")) THEN row
                      ELSE sn[i]],
                  dups + 1, new_items)
         ELSE PageLoop_last_kept(Tail(items), Append(sn, row), dups, new_items + 1)

\* lines 140-150: <<seen, duplicates, new_items>> after the items of one page
RECURSIVE PageLoop(_, _, _, _)
PageLoop(items, sn, dups, new_items) ==
    IF items = <<>> THEN <<sn, dups, new_items>>
    ELSE LET row == _normalize_item(Head(items)) IN
         IF ~Truthy(row) THEN PageLoop(Tail(items), sn, dups, new_items)
         ELSE IF Get(row, W("symbol")) \in SeenSymbols(sn)
         THEN PageLoop(Tail(items), sn, dups + 1, new_items)
         ELSE PageLoop(Tail(items), Append(sn, row), dups, new_items + 1)

\* lines 169-177: stats (elapsed_seconds left out)
ScreenerStats(sn, st) ==
    [total_items |-> st.total_items,
     unique_symbols |-> Len(sn),
     duplicates |-> st.duplicates,
     pages |-> st.pages,
     total_expected |-> st.total_expected]

\* line 178: return list(seen.values()), stats.__dict__
FetchAllReturn(sn, st) == <<sn, ScreenerStats(sn, st)>>

FeedError(why) == [kind |-> "FeedError", why |-> why]

\* fetch_page raises, were fetch_all to give back what it has collected so far
FetchPageRaises_partial(why) ==
    /\ err' = FeedError(why)
    /\ pc' = "feed_done"
    /\ UNCHANGED <<records, normalized, seen, fstats>>

\* fetch_page raises
FetchPageRaises(why) ==
    /\ err' = FeedError(why)
    /\ pc' = "feed_failed"
    /\ UNCHANGED <<records, normalized, seen, fstats>>

\* lines 136-138 and 163-166 with a page that brought no new symbol not ending the loop
Stops_on_short_only(items, new_items, total_expected, offset) ==
    \/ items = 0
    \/ items < count
    \/ (total_expected # None /\ offset + count >= total_expected.n)

\* lines 136-138 and 163-166: the loop is left after this page
Stops(items, new_items, total_expected, offset) ==
    \/ items = 0
    \/ items < count \/ new_items = 0
    \/ (total_expected # None /\ offset + count >= total_expected.n)

\* lines 127-167: one turn of the while loop of fetch_all, with `response` what
\* _request_with_retry gave fetch_page
FetchAllPage(response) ==
    /\ pc = "fetch"
    /\ fstats.pages < max_pages /\ Len(seen) < max_items
    /\ IF response.kind = "none" THEN FetchPageRaises("no response")
       ELSE IF response.kind = "status" THEN FetchPageRaises("status")
       ELSE IF response.kind = "badjson" THEN FetchPageRaises("json decode")
       ELSE IF _extract_items(response.payload) = Raises THEN FetchPageRaises("payload")
       ELSE LET recs == _extract_items(response.payload).xs
                last_total == _extract_total(response.payload)
                items == Len(recs)
                total_expected == IF fstats.total_expected = None THEN last_total
                                  ELSE fstats.total_expected
                after == PageLoop(recs, seen, fstats.duplicates, 0)
                stops == Stops(items, after[3], total_expected, fstats.offset)
                offset == IF stops THEN fstats.offset ELSE fstats.offset + count
            IN /\ records' = recs
               /\ normalized' = [i \in 1..Len(recs) |-> _normalize_item(recs[i])]
               /\ seen' = after[1]
               /\ fstats' = [total_items |-> fstats.total_items + items,
                             duplicates |-> after[2],
                             pages |-> fstats.pages + 1,
                             total_expected |-> total_expected,
                             offset |-> offset]
               /\ pc' = IF stops \/ ~(fstats.pages + 1 < max_pages
                                      /\ Len(after[1]) < max_items)
                        THEN "feed_done" ELSE "fetch"
               /\ UNCHANGED err
    /\ requested' = Append(requested, fstats.offset)
    /\ UNCHANGED own_vars
    /\ UNCHANGED <<mode, state, tried, best, quotes, rows, rows_data, rerun, page, located,
                   attempted, artifacts>>

-----------------------------------------------------------------------------
(* text: a str is a sequence of atoms, each one character or one word *)

Whitespace == {" ", "\n"}

\* the atom at index i (from 1), "" past the end
At(text, i) == IF i >= 1 /\ i <= Len(text) THEN text[i] ELSE ""

\* \s* from index i: the first index at or after i that holds no whitespace
RECURSIVE SkipWs(_, _)
SkipWs(text, i) == IF At(text, i) \in Whitespace THEN SkipWs(text, i + 1) ELSE i

\* s.strip()
RECURSIVE Strip(_)
Strip(s) ==
    IF s # <<>> /\ Head(s) \in Whitespace THEN Strip(Tail(s))
    ELSE IF s # <<>> /\ s[Len(s)] \in Whitespace THEN Strip(SubSeq(s, 1, Len(s) - 1))
    ELSE s

\* the least of a non-empty set of indexes
First(indexes) == CHOOSE i \in indexes : \A o \in indexes : i <= o

\* text.find(atom, start) for any of the atoms: the first index at or after start,
\* 0 for Python's -1
Find(text, atoms, start) ==
    LET hits == {i \in start..Len(text) : text[i] \in atoms} IN
    IF hits = {} THEN 0 ELSE First(hits)

\* d[key] = v
DictPut(d, key, v) ==
    IF HasKey(d, key)
    THEN Dict([i \in 1..Len(d.kv) |-> IF d.kv[i][1] = key THEN <<key, v>> ELSE d.kv[i]])
    ELSE Dict(Append(d.kv, <<key, v>>))

\* json.loads: the decoder over atoms. Numbers are unsigned integers, the escapes
\* are \" \\ and \/, a line break inside a string is an error.
JSONDecodeError == [t |-> "JSONDecodeError"]
Fail == [ok |-> FALSE]
Ok(v, i) == [ok |-> TRUE, v |-> v, i |-> i]

IsDigitAtom(c) == \E d \in 1..10 : Digits[d] = c

RECURSIVE DigitRun(_, _)
DigitRun(text, i) ==
    IF IsDigitAtom(At(text, i)) THEN <<At(text, i)>> \o DigitRun(text, i + 1) ELSE <<>>

\* the number of backslashes that end just before index q
RECURSIVE BackslashesBefore(_, _)
BackslashesBefore(text, q) ==
    IF At(text, q - 1) = "\\" THEN 1 + BackslashesBefore(text, q - 1) ELSE 0

\* the atom at index m of a string is a backslash that starts an escape
Escaping(text, m) == text[m] = "\\" /\ BackslashesBefore(text, m) % 2 = 0

\* the string that closes at index close: its atoms without the escaping backslashes
StringTo(text, i, close) ==
    IF \E m \in i..(close - 1) :
          \/ text[m] = "\n"
          \/ Escaping(text, m) /\ text[m + 1] \notin {"\"", "\\", "/"}
    THEN Fail
    ELSE Ok(SelectSeq([k \in 1..(close - i) |->
                          IF Escaping(text, i + k - 1) THEN "" ELSE text[i + k - 1]],
                      LAMBDA c : c # ""),
            close + 1)

\* the string that closes at the first of the indexes closes
StringAmong(text, i, closes) ==
    IF closes = {} THEN Fail ELSE StringTo(text, i, First(closes))

\* the atoms of a string, from the atom after its opening quote: it runs to the first
\* quote that is not escaped
ScanString(text, i) ==
    StringAmong(text, i, {q \in i..Len(text) :
                             text[q] = "\"" /\ BackslashesBefore(text, q) % 2 = 0})

StringValue(s) == IF s.ok THEN Ok(Str(s.v), s.i) ELSE Fail

NumberValue(i, run) == Ok(Num(DigitsValue(run)), i + Len(run))

RECURSIVE ParseValue(_, _)
RECURSIVE ParseMembers(_, _, _)
RECURSIVE MemberKey(_, _, _)
RECURSIVE MemberValue(_, _, _, _)
RECURSIVE MemberNext(_, _, _)
RECURSIVE ParseElements(_, _, _)
RECURSIVE ElementValue(_, _, _)
RECURSIVE ElementNext(_, _, _)
ParseValue(text, i) ==
    IF At(text, i) = "{"
    THEN (IF At(text, SkipWs(text, i + 1)) = "}"
          THEN Ok(Dict(<<>>), SkipWs(text, i + 1) + 1)
          ELSE ParseMembers(text, SkipWs(text, i + 1), Dict(<<>>)))
    ELSE IF At(text, i) = "["
    THEN (IF At(text, SkipWs(text, i + 1)) = "]"
          THEN Ok(List(<<>>), SkipWs(text, i + 1) + 1)
          ELSE ParseElements(text, SkipWs(text, i + 1), <<>>))
    ELSE IF At(text, i) = "\"" THEN StringValue(ScanString(text, i + 1))
    ELSE IF At(text, i) = "0" THEN Ok(Num(0), i + 1)
    ELSE IF IsDigitAtom(At(text, i)) THEN NumberValue(i, DigitRun(text, i))
    ELSE IF At(text, i) = "null" THEN Ok(None, i + 1)
    ELSE IF At(text, i) = "true" THEN Ok(Bool(TRUE), i + 1)
    ELSE IF At(text, i) = "false" THEN Ok(Bool(FALSE), i + 1)
    ELSE Fail

\* the members of an object from the key at index i, d the members so far
ParseMembers(text, i, d) ==
    IF At(text, i) # "\"" THEN Fail ELSE MemberKey(text, d, ScanString(text, i + 1))

\* after the key: the colon and the value
MemberKey(text, d, key) ==
    IF ~key.ok THEN Fail
    ELSE IF At(text, SkipWs(text, key.i)) # ":" THEN Fail
    ELSE MemberValue(text, d, key.v,
                     ParseValue(text, SkipWs(text, SkipWs(text, key.i) + 1)))

MemberValue(text, d, k, val) ==
    IF ~val.ok THEN Fail
    ELSE MemberNext(text, DictPut(d, k, val.v), SkipWs(text, val.i))

\* after a member: the end of the object or a comma and the next member
MemberNext(text, d, after) ==
    IF At(text, after) = "}" THEN Ok(d, after + 1)
    ELSE IF At(text, after) = "," THEN ParseMembers(text, SkipWs(text, after + 1), d)
    ELSE Fail

\* the elements of an array from the value at index i, xs the elements so far
ParseElements(text, i, xs) == ElementValue(text, xs, ParseValue(text, i))

ElementValue(text, xs, val) ==
    IF ~val.ok THEN Fail
    ELSE ElementNext(text, Append(xs, val.v), SkipWs(text, val.i))

ElementNext(text, xs, after) ==
    IF At(text, after) = "]" THEN Ok(List(xs), after + 1)
    ELSE IF At(text, after) = "," THEN ParseElements(text, SkipWs(text, after + 1), xs)
    ELSE Fail

\* the value parsed when nothing but white space follows it
WholeText(text, r) ==
    IF r.ok /\ SkipWs(text, r.i) > Len(text) THEN r.v ELSE JSONDecodeError

Loads(text) == WholeText(text, ParseValue(text, SkipWs(text, 1)))

\* json.dumps with the default separators
RECURSIVE EscapeRange(_, _, _)
EscapeRange(s, lo, hi) ==
    IF lo > hi THEN <<>>
    ELSE IF lo = hi THEN (IF s[lo] \in {"\"", "\\"} THEN <<"\\", s[lo]>> ELSE <<s[lo]>>)
    ELSE EscapeRange(s, lo, (lo + hi) \div 2) \o EscapeRange(s, ((lo + hi) \div 2) + 1, hi)

EscapeStr(s) == EscapeRange(s, 1, Len(s))

RECURSIVE Dumps(_)
RECURSIVE DumpsItems(_)
RECURSIVE DumpsPairs(_)
Dumps(v) ==
    CASE v.t = "null" -> <<"null">>
      [] v.t = "num" -> IntStr(v.n)
      [] v.t = "str" -> <<"\"">> \o EscapeStr(v.s) \o <<"\"">>
      [] v.t = "bool" -> IF v.b THEN <<"true">> ELSE <<"false">>
      [] v.t = "list" -> <<"[">> \o DumpsItems(v.xs) \o <<"]">>
      [] v.t = "dict" -> <<"{">> \o DumpsPairs(v.kv) \o <<"}">>

DumpsItems(xs) ==
    IF xs = <<>> THEN <<>>
    ELSE Dumps(Head(xs))
         \o (IF Len(xs) > 1 THEN <<",", " ">> \o DumpsItems(Tail(xs)) ELSE <<>>)

DumpsPairs(kv) ==
    IF kv = <<>> THEN <<>>
    ELSE <<"\"">> \o EscapeStr(Head(kv)[1]) \o <<"\"", ":", " ">> \o Dumps(Head(kv)[2])
         \o (IF Len(kv) > 1 THEN <<",", " ">> \o DumpsPairs(Tail(kv)) ELSE <<>>)

-----------------------------------------------------------------------------
(* parser.py: the state locator *)

RuntimeError(kind, source) == [t |-> "RuntimeError", kind |-> kind, source |-> source]

IsError(r) == r.t = "RuntimeError"

\* lines 358-376 without the escape flag: a quote always closes the string
BalancedStep_no_escape(text, index, v) ==
    LET char == text[index] IN
    IF v.in_string
    THEN (IF char = "\"" THEN [v EXCEPT !.in_string = FALSE] ELSE v)
    ELSE IF char = "\"" THEN [v EXCEPT !.in_string = TRUE]
    ELSE IF char = "{" THEN [v EXCEPT !.depth = @ + 1]
    ELSE IF char = "}"
    THEN (IF v.depth - 1 = 0 THEN [v EXCEPT !.depth = 0, !.end = index]
          ELSE [v EXCEPT !.depth = @ - 1])
    ELSE v

\* lines 358-376: the variables of the loop after the character at index; end is the
\* index the loop returns at, 0 while it runs
BalancedStep(text, index, v) ==
    LET char == text[index] IN
    IF v.in_string
    THEN (IF v.escape THEN [v EXCEPT !.escape = FALSE]
          ELSE IF char = "\\" THEN [v EXCEPT !.escape = TRUE]
          ELSE IF char = "\"" THEN [v EXCEPT !.in_string = FALSE]
          ELSE v)
    ELSE IF char = "\"" THEN [v EXCEPT !.in_string = TRUE]
    ELSE IF char = "{" THEN [v EXCEPT !.depth = @ + 1]
    ELSE IF char = "}"
    THEN (IF v.depth - 1 = 0 THEN [v EXCEPT !.depth = 0, !.end = index]
          ELSE [v EXCEPT !.depth = @ - 1])
    ELSE v

\* the loop of line 357 over the indexes lo..hi, taken in two halves
RECURSIVE BalancedLoop(_, _, _, _)
BalancedLoop(text, lo, hi, v) ==
    IF lo > hi \/ v.end # 0 THEN v
    ELSE IF lo = hi THEN BalancedStep(text, lo, v)
    ELSE LET left == BalancedLoop(text, lo, (lo + hi) \div 2, v)
         IN BalancedLoop(text, ((lo + hi) \div 2) + 1, hi, left)

\* the text of the balanced object, or the error, whose message names root.App.main
\* whatever the caller
_extract_balanced_json(text, start_index) ==
    LET end == BalancedLoop(text, start_index, Len(text),
                            [depth |-> 0, in_string |-> FALSE, escape |-> FALSE,
                             end |-> 0]).end
    IN
    IF end = 0 THEN RuntimeError("unbalanced", "root.App.main")
    ELSE Str(SubSeq(text, start_index, end))

_loads_json(payload, source) ==
    LET data == Loads(payload) IN
    IF data = JSONDecodeError THEN RuntimeError("decode", source)
    ELSE IF ~IsDict(data) THEN RuntimeError("not_dict", source)
    ELSE data

\* re.search(marker \s* = \s*): the index after the match, 0 when there is none
MarkerEnd(page_source, marker) ==
    LET starts == {i \in 1..Len(page_source) :
                      /\ page_source[i] = marker
                      /\ At(page_source, SkipWs(page_source, i + 1)) = "="}
    IN IF starts = {} THEN 0
       ELSE LET i == First(starts)
            IN SkipWs(page_source, SkipWs(page_source, i + 1) + 1)

\* lines 189-197, 200-208, 225-233: the body shared by the three global conventions
GlobalAssignment(page_source, marker, source) ==
    LET end == MarkerEnd(page_source, marker) IN
    IF end = 0 THEN None
    ELSE LET start == Find(page_source, {"{"}, end) IN
         IF start = 0 THEN RuntimeError("object_not_found", source)
         ELSE LET json_text == _extract_balanced_json(page_source, start) IN
              IF IsError(json_text) THEN json_text
              ELSE _loads_json(json_text.s, source)

_extract_root_app_state(page_source) ==
    GlobalAssignment(page_source, "root.App.main", "root.App.main")

_extract_preloaded_state(page_source) ==
    GlobalAssignment(page_source, "__PRELOADED_STATE__", "__PRELOADED_STATE__")

_extract_yahoo_context_state(page_source) ==
    GlobalAssignment(page_source, "YAHOO.context", "YAHOO.context")

\* id="__NEXT_DATA__" as the pattern spells it
NextDataId == <<"id", "=", "\"", "__NEXT_DATA__", "\"">>

\* the match of the pattern of lines 212-216 that starts at index i: <<first, last>>
\* of the group data, <<>> when the pattern does not match there
NextDataMatchAt(page_source, i) ==
    LET gt == Find(page_source, {">"}, i + 1) IN
    IF page_source[i] # "<script" \/ gt = 0 THEN <<>>
    ELSE IF ~IsInfix(NextDataId, SubSeq(page_source, i + 1, gt - 1)) THEN <<>>
    ELSE LET close == Find(page_source, {"</script>"}, gt + 1) IN
         IF close = 0 THEN <<>> ELSE <<gt + 1, close - 1>>

\* lines 211-222
_extract_next_data_state(page_source) ==
    LET starts == {i \in 1..Len(page_source) : NextDataMatchAt(page_source, i) # <<>>} IN
    IF starts = {} THEN None
    ELSE LET m == NextDataMatchAt(page_source, First(starts))
             json_text == Strip(SubSeq(page_source, m[1], m[2]))
         IN IF json_text = <<>> THEN RuntimeError("empty", "__NEXT_DATA__")
            ELSE _loads_json(json_text, "__NEXT_DATA__")

\* the atoms of the pages made only of letters, digits, _ and -
NameAtoms == {"id", "type", "data-url", "data-sveltekit-fetched", "src", "__NEXT_DATA__"}

\* the match of one pattern of _parse_attrs that starts at index n:
\* <<index of the opening quote, index of the closing quote>>, <<>> when none
AttrMatchAt(text, n, quote) ==
    LET eq == SkipWs(text, n + 1)
        open == SkipWs(text, eq + 1)
    IN IF text[n] \notin NameAtoms \/ At(text, eq) # "=" \/ At(text, open) # quote THEN <<>>
       ELSE IF Find(text, {quote}, open + 1) = 0 THEN <<>>
       ELSE <<open, Find(text, {quote}, open + 1)>>

\* one finditer loop of _parse_attrs, from index start
RECURSIVE AttrLoop(_, _, _, _)
AttrLoop(text, start, quote, attrs) ==
    LET starts == {n \in start..Len(text) : AttrMatchAt(text, n, quote) # <<>>} IN
    IF starts = {} THEN attrs
    ELSE LET n == First(starts)
             m == AttrMatchAt(text, n, quote)
         IN AttrLoop(text, m[2] + 1, quote,
                     DictPut(attrs, <<text[n]>>, Str(SubSeq(text, m[1] + 1, m[2] - 1))))

\* lines 534-540
_parse_attrs(attrs_text) ==
    AttrLoop(attrs_text, 1, "'", AttrLoop(attrs_text, 1, "\"", Dict(<<>>)))

OpenTags == {"<script", "<SCRIPT"}
CloseTags == {"</script>", "</SCRIPT>"}

\* lines 523-531: the <<attrs, body>> pairs from index start on
RECURSIVE ScriptTagsFrom(_, _)
ScriptTagsFrom(page_source, start) ==
    LET open == Find(page_source, OpenTags, start) IN
    IF open = 0 THEN <<>>
    ELSE LET gt == Find(page_source, {">"}, open + 1) IN
         IF gt = 0 THEN <<>>
         ELSE LET close == Find(page_source, CloseTags, gt + 1) IN
              IF close = 0 THEN <<>>
              ELSE << <<_parse_attrs(SubSeq(page_source, open + 1, gt - 1)),
                        Strip(SubSeq(page_source, gt + 1, close - 1))>> >>
                   \o ScriptTagsFrom(page_source, close + 1)

_iter_script_tags(page_source) == ScriptTagsFrom(page_source, 1)

\* max(candidate[0] for candidate in candidates)
RECURSIVE MaxScore(_)
MaxScore(candidates) ==
    IF Len(candidates) = 1 THEN candidates[1].score
    ELSE LET m == MaxScore(Tail(candidates)) IN
         IF candidates[1].score > m THEN candidates[1].score ELSE m

\* lines 341-350
_score_state(st) ==
    LET candidates == _find_quote_lists(st, <<>>) IN
    (IF HasKey(st, W("quotes")) THEN 5 ELSE 0)
    + (IF HasKey(st, W("finance")) THEN 3 ELSE 0)
    + (IF candidates # <<>> THEN MaxScore(candidates) ELSE 0)

\* attrs.get("type", "")
ScriptType(attrs) == IF HasKey(attrs, W("type")) THEN Get(attrs, W("type")) ELSE Str(<<>>)

\* lines 280-292: the entry of one script whose body decoded to payload
EntryOf(attrs, payload) ==
    LET entry == Dict(<< <<W("attrs"), attrs>>, <<W("payload"), payload>> >>)
        body_value == IF IsDict(payload) THEN Get(payload, W("body")) ELSE None
    IN IF ~IsStr(body_value) THEN entry
       ELSE LET stripped == Strip(body_value.s) IN
            IF At(stripped, 1) \notin {"{", "["} THEN entry
            ELSE IF Loads(stripped) = JSONDecodeError
            THEN DictPut(entry, W("body"), Str(stripped))
            ELSE DictPut(entry, W("body"), Loads(stripped))

\* lines 267-293 with the loop left (break) at the first undecodable body
RECURSIVE EntriesOf_break(_)
EntriesOf_break(tags) ==
    IF tags = <<>> THEN <<>>
    ELSE LET attrs == Head(tags)[1]
             body == Head(tags)[2]
         IN IF body = <<>> THEN EntriesOf_break(Tail(tags))
            ELSE IF ~IsInfix(<<"application/json">>, ScriptType(attrs).s)
            THEN EntriesOf_break(Tail(tags))
            ELSE IF Loads(body) = JSONDecodeError THEN <<>>
            ELSE <<EntryOf(attrs, Loads(body))>> \o EntriesOf_break(Tail(tags))

\* lines 267-293
RECURSIVE EntriesOf(_)
EntriesOf(tags) ==
    IF tags = <<>> THEN <<>>
    ELSE LET attrs == Head(tags)[1]
             body == Head(tags)[2]
         IN IF body = <<>> THEN EntriesOf(Tail(tags))
            ELSE IF ~IsInfix(<<"application/json">>, ScriptType(attrs).s)
            THEN EntriesOf(Tail(tags))
            ELSE IF Loads(body) = JSONDecodeError THEN EntriesOf(Tail(tags))
            ELSE <<EntryOf(attrs, Loads(body))>> \o EntriesOf(Tail(tags))

_extract_application_json_scripts(page_source) == EntriesOf(_iter_script_tags(page_source))

\* lines 327-338: best is <<score, candidate>>, <<>> for None
RECURSIVE PickStateLoop(_, _)
PickStateLoop(entries, bestState) ==
    IF entries = <<>> THEN bestState
    ELSE LET entry == Head(entries)
             candidate == IF IsDict(Get(entry, W("body"))) THEN Get(entry, W("body"))
                          ELSE Get(entry, W("payload"))
         IN IF ~IsDict(candidate) THEN PickStateLoop(Tail(entries), bestState)
            ELSE IF _score_state(candidate) <= 0 THEN PickStateLoop(Tail(entries), bestState)
            ELSE IF bestState = <<>> \/ _score_state(candidate) > bestState[1]
            THEN PickStateLoop(Tail(entries), <<_score_state(candidate), candidate>>)
            ELSE PickStateLoop(Tail(entries), bestState)

_pick_best_state(entries) ==
    LET bestState == PickStateLoop(entries, <<>>) IN
    IF bestState # <<>> THEN bestState[2] ELSE None

\* lines 236-245
_extract_sveltekit_state(page_source) ==
    LET entries == _extract_application_json_scripts(page_source) IN
    IF entries = <<>> THEN None
    ELSE IF _pick_best_state(entries) # None THEN _pick_best_state(entries)
    ELSE Dict(<< <<W("__sveltekit__"), List(entries)>> >>)

\* the atoms of the pages that contain one of the keywords of line 249
KeywordAtoms == {"quotes", "quote", "screener", "equity", "finance", "results"}

\* lines 250-264
RECURSIVE HeuristicLoop(_)
HeuristicLoop(tags) ==
    IF tags = <<>> THEN None
    ELSE LET body == Head(tags)[2]
             start == Find(body, {"{"}, 1)
         IN IF body = <<>> THEN HeuristicLoop(Tail(tags))
            ELSE IF ~\E i \in 1..Len(body) : body[i] \in KeywordAtoms
            THEN HeuristicLoop(Tail(tags))
            ELSE IF start = 0 THEN HeuristicLoop(Tail(tags))
            ELSE LET json_text == _extract_balanced_json(body, start) IN
                 IF IsError(json_text) THEN HeuristicLoop(Tail(tags))
                 ELSE IF IsError(_loads_json(json_text.s, "script-heuristic"))
                 THEN HeuristicLoop(Tail(tags))
                 ELSE _loads_json(json_text.s, "script-heuristic")

_extract_script_json_heuristic(page_source) == HeuristicLoop(_iter_script_tags(page_source))

\* lines 543-558; the length of a body is left out, text being kept as atoms
_collect_script_info(page_source) ==
    LET tags == _iter_script_tags(page_source) IN
    [total_scripts |-> Len(tags),
     scripts |-> [i \in 1..(IF Len(tags) < 40 THEN Len(tags) ELSE 40) |->
                    [id |-> Get(tags[i][1], W("id")),
                     type |-> Get(tags[i][1], W("type")),
                     data_url |-> Get(tags[i][1], W("data-url")),
                     data_sveltekit |-> HasKey(tags[i][1], W("data-sveltekit-fetched"))]]]

ParseFailPath == <<"artifacts", "/", "parse_fail_state", ".json">>

\* lines 561-581: the file written; the snippets hold the whole bodies
_save_parse_fail_state(info, page_source) ==
    LET tags == _iter_script_tags(page_source) IN
    [path |-> ParseFailPath,
     info |-> info,
     snippets |-> [i \in 1..(IF Len(tags) < 5 THEN Len(tags) ELSE 5) |->
                     [id |-> Get(tags[i][1], W("id")),
                      type |-> Get(tags[i][1], W("type")),
                      data_url |-> Get(tags[i][1], W("data-url")),
                      snippet |-> tags[i][2]]]]

StateNotFound == [t |-> "RuntimeError", kind |-> "state_not_found",
                  artifact_path |-> ParseFailPath]

\* a convention gave result r: raise, return, or go on to the next convention
Locate(name, r, accepted, next) ==
    /\ attempted' = Append(attempted, name)
    /\ IF IsError(r)
       THEN pc' = "locate_failed" /\ err' = r /\ UNCHANGED located
       ELSE IF r # None /\ accepted
       THEN pc' = "located" /\ located' = r /\ UNCHANGED err
       ELSE pc' = next /\ UNCHANGED <<located, err>>
    /\ UNCHANGED call_vars
    /\ UNCHANGED <<mode, state, tried, best, quotes, rows, rows_data, rerun, records,
                   normalized, seen, fstats, page, artifacts>>

\* lines 56-64 with the two first conventions in the other order
ExtractNextData_after_preloaded ==
    /\ pc = "next_data"
    /\ IF _extract_preloaded_state(page) # None
       THEN Locate("preloaded", _extract_preloaded_state(page), TRUE, "root_app")
       ELSE Locate("next_data", _extract_next_data_state(page), TRUE, "root_app")

\* lines 56-60
ExtractNextData ==
    /\ pc = "next_data"
    /\ Locate("next_data", _extract_next_data_state(page), TRUE, "preloaded")

\* lines 62-64
ExtractPreloaded ==
    /\ pc = "preloaded"
    /\ Locate("preloaded", _extract_preloaded_state(page), TRUE, "root_app")

\* lines 66-68
ExtractRootApp ==
    /\ pc = "root_app"
    /\ Locate("root_app", _extract_root_app_state(page), TRUE, "sveltekit")

\* lines 70-72
ExtractSvelteKit ==
    /\ pc = "sveltekit"
    /\ Locate("sveltekit", _extract_sveltekit_state(page), TRUE, "yahoo_context")

\* lines 74-76
ExtractYahooContext ==
    /\ pc = "yahoo_context"
    /\ LET st == _extract_yahoo_context_state(page) IN
       Locate("yahoo_context", st,
              IF IsDict(st) THEN _score_state(st) > 0 ELSE FALSE, "heuristic")

\* lines 78-87 with the error raised before the artifact is written
ExtractHeuristic_raise_first ==
    /\ pc = "heuristic"
    /\ LET st == _extract_script_json_heuristic(page) IN
       /\ attempted' = Append(attempted, "heuristic")
       /\ IF st # None
          THEN pc' = "located" /\ located' = st /\ UNCHANGED err
          ELSE err' = StateNotFound /\ pc' = "locate_failed" /\ UNCHANGED located
    /\ UNCHANGED call_vars
    /\ UNCHANGED <<mode, state, tried, best, quotes, rows, rows_data, rerun, records,
                   normalized, seen, fstats, page, artifacts>>

\* lines 78-87: the heuristic scan and, when it gives nothing, the artifact and the
\* error (script_info of line 56 is a function of the page alone)
ExtractHeuristic ==
    /\ pc = "heuristic"
    /\ LET st == _extract_script_json_heuristic(page) IN
       /\ attempted' = Append(attempted, "heuristic")
       /\ IF st # None
          THEN pc' = "located" /\ located' = st /\ UNCHANGED <<err, artifacts>>
          ELSE /\ artifacts' = Append(artifacts,
                      _save_parse_fail_state(_collect_script_info(page), page))
               /\ err' = StateNotFound
               /\ pc' = "locate_failed"
               /\ UNCHANGED located
    /\ UNCHANGED call_vars
    /\ UNCHANGED <<mode, state, tried, best, quotes, rows, rows_data, rerun, records,
                   normalized, seen, fstats, page>>

-----------------------------------------------------------------------------
(* the inputs *)

MaxQuotes == 2

Absent == [t |-> "absent"]

\* the entry of an optional field
Entry(key, v) == IF v = Absent THEN <<>> ELSE << <<W(key), v>> >>

Obj1(key, v) == Dict(<< <<W(key), v>> >>)

Wrapper(raw, fmt) == Dict(Entry("raw", raw) \o Entry("fmt", fmt))

Fmt10 == Str(<<"1", "0", ".", "0", "0">>)
Fmt1234 == Str(<<"1", ",", "2", "3", "4">>)

Quote(symbol, ticker, rmp, prev, price, last, cap) ==
    Dict(Entry("symbol", symbol) \o Entry("ticker", ticker)
         \o Entry("regularMarketPrice", rmp)
         \o Entry("regularMarketPreviousClose", prev)
         \o Entry("price", price) \o Entry("lastPrice", last)
         \o Entry("marketCap", cap))

Named(short, long, name, display, exchange, full, exname, currency) ==
    Dict(Entry("symbol", SW("ABC")) \o Entry("shortName", short)
         \o Entry("longName", long) \o Entry("name", name)
         \o Entry("displayName", display) \o Entry("exchange", exchange)
         \o Entry("fullExchangeName", full) \o Entry("exchangeName", exname)
         \o Entry("currency", currency))

SymbolChoices == {Absent, SW("ABC"), Str(<<>>), None, Num(7), Num(0), Obj1("raw", SW("ABC"))}
TickerChoices == {Absent, SW("TCK"), Str(<<>>)}
RmpChoices == {Absent, None, Num(10), Num(0), Wrapper(Num(10), Fmt10), Wrapper(None, Absent)}
PrevChoices == {Absent, None, Num(5)}
PriceChoices == {Absent, Num(0), Num(3), Str(<<>>)}
LastChoices == {Absent, Num(4)}
CapChoices ==
    {Absent, None, Num(1234), Fmt1234, Wrapper(Num(1234), Fmt1234), Wrapper(Absent, Fmt1234),
     Wrapper(None, Fmt1234), Obj1("longFmt", Fmt1234), Dict(<<>>),
     Wrapper(Wrapper(Num(1234), Absent), Absent)}

\* single records: one group of fields varied at a time
NQuotes ==
    {Quote(s, t, Num(10), Absent, Absent, Absent, Absent) :
        s \in SymbolChoices, t \in TickerChoices}
    \cup {Quote(SW("ABC"), Absent, r, p, pr, l, Absent) :
        r \in RmpChoices, p \in PrevChoices, pr \in PriceChoices, l \in LastChoices}
    \cup {Quote(SW("ABC"), Absent, Num(10), Absent, Absent, Absent, c) : c \in CapChoices}
    \cup {Named(sh, lo, Absent, di, ex, Absent, Absent, Absent) :
        sh \in {Absent, Str(<<>>), Str(<<"Abc", " ", "Corp">>)},
        lo \in {Absent, SW("Long")}, di \in {Absent, SW("Disp")},
        ex \in {Absent, SW("NYQ")}}
    \cup {Named(Absent, Absent, n, Absent, ex, fu, en, cu) :
        n \in {Absent, Num(7)}, ex \in {Absent, Str(<<>>)}, fu \in {Absent, SW("NYSE")},
        en \in {Absent, SW("Nyse")}, cu \in {Absent, None, SW("USD"), Wrapper(SW("USD"), Absent)}}

qABC == Quote(SW("ABC"), Absent, Num(10), Absent, Absent, Absent, Absent)
qXYZ == Quote(SW("XYZ"), Absent, Num(5), Absent, Absent, Absent, Absent)
qTCK == Quote(Absent, SW("TCK"), Absent, Num(5), Absent, Absent, Num(1234))
qFull == Quote(SW("FUL"), Absent, Num(10), Absent, Absent, Absent, Num(1234))
qBare == Quote(SW("BAR"), Absent, Absent, Absent, Absent, Absent, Absent)
qBare2 == Quote(SW("BAZ"), Absent, Absent, Absent, Absent, Absent, Absent)
qNoSym == Obj1("name", SW("Nm"))
qEmptySym == Quote(Str(<<>>), Absent, Num(10), Absent, Absent, Absent, Absent)

\* the elements of the longer lists
PairElems == {qABC, qXYZ, qTCK, qNoSym, qEmptySym, Num(5)}

RECURSIVE SeqsUpTo(_, _)
SeqsUpTo(S, n) ==
    IF n = 0 THEN {<<>>}
    ELSE LET shorter == SeqsUpTo(S, n - 1) IN
         shorter \cup {Append(q, e) : q \in {x \in shorter : Len(x) = n - 1}, e \in S}

NLists == {<<q>> : q \in NQuotes} \cup SeqsUpTo(PairElems, MaxQuotes)

\* a state with the list at the first known path
Stores(content) ==
    Obj1("context", Obj1("dispatcher", Obj1("stores", content)))

KnownState(list) ==
    Stores(Dict(<< <<ScreenerResultsStore, Obj1("results", Obj1("quotes", list))>> >>))

NTrees == {KnownState(List(l)) : l \in NLists}

\* lists of the finder's trees
L_AX == List(<<qABC, qXYZ>>)
L_Full == List(<<qFull>>)
L_Two == List(<<qBare, qBare2>>)
L_None == List(<<qNoSym>>)
L_Mixed == List(<<qFull, Num(5), qTCK>>)
QuotesDict == Dict(<< <<W("a"), qABC>>, <<W("b"), qXYZ>> >>)

RECURSIVE Chain(_, _)
Chain(n, v) == IF n = 0 THEN v ELSE Obj1("n", Chain(n - 1, v))

CtxOptions ==
    {Absent,
     KnownState(L_AX),
     KnownState(L_None),
     KnownState(QuotesDict),
     Stores(Dict(<< <<ScreenerStore, Obj1("results", Obj1("x", qABC))>> >>)),
     Stores(Dict(<< <<ScreenerResultsStore,
        Obj1("results", Obj1("finance", Obj1("result",
            List(<<Obj1("quotes", L_Two)>>))))>> >>)),
     Stores(Dict(<< <<ScreenerResultsStore, Obj1("results", Obj1("quotes", L_Two))>>,
                    <<ScreenerStore, Obj1("quotes", L_Full)>> >>)),
     Stores(Obj1("OtherStore", Obj1("items", L_AX))),
     Stores(Obj1("OtherStore", Dict(<< <<W("a"), L_Full>>, <<W("b"), L_Two>> >>))),
     Stores(Obj1("OtherStore", Dict(<< <<W("a"), L_Two>>, <<W("b"), L_Full>> >>))),
     Stores(Obj1("OtherStore", Obj1("items", L_None))),
     Stores(L_AX)}

PropsOptions ==
    {Absent,
     Obj1("props", Obj1("pageProps", Obj1("items", L_Two))),
     Obj1("props", Dict(<< <<W("pageProps"), Obj1("items", L_Two)>>,
                           <<W("quotes"), L_AX>> >>)),
     Obj1("props", Obj1("items", L_Full)),
     Obj1("props", List(<<Obj1("items", L_Mixed)>>)),
     Obj1("props", Obj1("pageProps", Obj1("items", L_None))),
     Obj1("props", SW("x"))}

PagePropsOptions ==
    {Absent, Obj1("pageProps", Obj1("rows", L_AX)), Obj1("pageProps", L_Full)}

MiscOptions ==
    {Absent,
     Obj1("data", L_AX),
     Obj1("data", L_None),
     Obj1("data", L_Mixed),
     Obj1("quotes", QuotesDict),
     Obj1("data", List(<<L_AX>>)),
     Dict(<< <<W("data"), L_AX>>, <<<<"quotes", "List">>, L_Mixed>> >>),
     Dict(<< <<W("data"), L_AX>>, <<<<"search", "results">>, L_Two>> >>),
     Obj1("deep", Chain(15, Obj1("items", L_AX))),
     Obj1("deep", Chain(16, Obj1("items", L_AX)))}

Part(option) == IF option = Absent THEN <<>> ELSE option.kv

FTrees ==
    {Dict(Part(c) \o Part(p) \o Part(pp) \o Part(m)) :
        c \in CtxOptions, p \in PropsOptions, pp \in PagePropsOptions, m \in MiscOptions}

Trees == NTrees \cup FTrees

\* feed items and payloads
FeedItems ==
    {Quote(Absent, SW("AAA"), Num(10), Num(5), Absent, Absent, Wrapper(Num(1234), Fmt1234)),
     Quote(SW("BBB"), Absent, Absent, Num(5), Num(3), Absent, Absent),
     Quote(Absent, SW("CCC"), Absent, Absent, Num(0), Num(4), Absent),
     Quote(SW("AAA"), Str(<<>>), Wrapper(Absent, Fmt10), Absent, Absent, Absent, Num(1234)),
     qNoSym,
     Num(5)}

\* a page of count + 1 items
OverFull ==
    <<Quote(Absent, SW("AAA"), Num(10), Num(5), Absent, Absent, Wrapper(Num(1234), Fmt1234)),
      Quote(SW("BBB"), Absent, Absent, Num(5), Num(3), Absent, Absent),
      Quote(Absent, SW("CCC"), Absent, Absent, Num(0), Num(4), Absent)>>

FeedPayload(recs, total) ==
    Obj1("finance", Obj1("result",
        List(<<Dict(Entry("total", total) \o Entry("records", List(recs)))>>)))

FeedResponses ==
    {[kind |-> "ok", payload |-> FeedPayload(r, t)] :
        r \in SeqsUpTo(FeedItems, count), t \in {Absent, Num(3)}}
    \cup {[kind |-> "ok", payload |-> pl] :
        pl \in {Dict(<<>>), Obj1("finance", None),
                Obj1("finance", Obj1("result", List(<<>>))),
                Obj1("finance", Obj1("result", List(<<Obj1("quotes", QuotesDict)>>))),
                Obj1("finance", Obj1("result",
                    List(<<Dict(<< <<W("total"), SW("3")>>, <<W("quotes"), List(<<>>)>> >>)>>)))}}
    \cup {[kind |-> "ok", payload |-> FeedPayload(OverFull, Absent)]}
    \cup {[kind |-> "none"], [kind |-> "status"], [kind |-> "badjson"]}

\* pages: the pieces a page is put together from, one per convention
Script(attrs_text, body) == <<"<script">> \o attrs_text \o <<">">> \o body \o <<"</script>">>

IdAttr == <<" ", "id", "=", "\"", "__NEXT_DATA__", "\"">>
TypeJsonAttr == <<" ", "type", "=", "\"", "application/json", "\"">>
FetchedAttr == <<" ", "data-sveltekit-fetched">>
DataUrlAttr == <<" ", "data-url", "=", "\"", "predefined/saved", "\"">>

S_next == Obj1("props", Obj1("pageProps", Obj1("quotes", L_AX)))
S_next_2 == Obj1("quotes", L_Full)
S_preloaded == Obj1("quotes", L_Two)
S_root_app == KnownState(L_Two)
S_context == Obj1("finance", Obj1("result", L_Full))
S_context_0 == Obj1("lang", SW("en"))
S_fetched == Obj1("finance", Obj1("result", L_AX))
S_heuristic == Obj1("results", List(<<qTCK>>))

Unfinished == <<"{", "\"", "a", "\"", ":", " ">>
NotJson == <<"{", "a", "}">>

NextDataOptions ==
    {<<>>,
     Script(IdAttr, Dumps(S_next)),
     Script(TypeJsonAttr \o IdAttr, <<"\n", " ">> \o Dumps(S_next_2) \o <<"\n">>),
     Script(IdAttr, Dumps(Dict(<<>>))),
     Script(IdAttr, Dumps(L_AX)),
     Script(IdAttr, Dumps(None)),
     Script(IdAttr, Unfinished),
     Script(IdAttr, <<" ">>),
     Script(<<" ", "id", "=", "'", "__NEXT_DATA__", "'">>, Dumps(S_next)),
     Script(<<" ", "id", " ", "=", " ", "\"", "__NEXT_DATA__", "\"">>, Dumps(S_next)),
     <<"<SCRIPT">> \o IdAttr \o <<">">> \o Dumps(S_next) \o <<"</SCRIPT>">>,
     Script(IdAttr, NotJson) \o Script(IdAttr, Dumps(S_next))}

Assigned(marker, text) ==
    Script(<<>>, <<"window.", marker, " ", "=", " ">> \o text \o <<";">>)

PreloadedOptions ==
    {<<>>,
     Assigned("__PRELOADED_STATE__", Dumps(S_preloaded)),
     Assigned("__PRELOADED_STATE__", Unfinished),
     Assigned("__PRELOADED_STATE__", <<"null">>)}

RootAppOptions ==
    {<<>>,
     Script(<<>>, <<"root.App.main", "=">> \o Dumps(S_root_app) \o <<";">>),
     Assigned("root.App.main", NotJson)}

FetchedOptions ==
    {<<>>,
     Script(TypeJsonAttr \o FetchedAttr \o DataUrlAttr,
            Dumps(Dict(<< <<W("status"), Num(200)>>,
                          <<W("body"), Str(Dumps(S_fetched))>> >>))),
     Script(TypeJsonAttr, Dumps(S_preloaded)),
     Script(TypeJsonAttr \o FetchedAttr, Dumps(Obj1("status", Num(200))))
         \o Script(<<" ", "type", "=", "'", "application/json", "'">>, Dumps(List(<<Num(1)>>))),
     Script(TypeJsonAttr \o FetchedAttr, Unfinished),
     Script(TypeJsonAttr, <<" ">>) \o Script(TypeJsonAttr \o FetchedAttr, Unfinished)
         \o Script(TypeJsonAttr, Dumps(S_preloaded))}

ContextOptions ==
    {<<>>,
     Assigned("YAHOO.context", Dumps(S_context)),
     Assigned("YAHOO.context", Dumps(S_context_0)),
     Assigned("YAHOO.context", <<"null">>)}

HeuristicOptions ==
    {<<>>,
     Script(<<>>, <<"var", " ", "quotes", " ", "=", " ">> \o Dumps(S_heuristic) \o <<";">>),
     Script(<<>>, <<"var", " ", "quotes", " ", "=", " ">> \o NotJson \o <<";">>),
     Script(<<>>, <<"var", " ", "x", " ", "=", " ">> \o Dumps(Obj1("a", Num(1))) \o <<";">>)}

Html(parts) == <<"<html>">> \o parts \o <<"</html>">>

Pages ==
    {Html(p \o r \o n) :
        n \in NextDataOptions, p \in PreloadedOptions, r \in RootAppOptions}
    \cup {Html(n \o s \o y \o h) :
        n \in NextDataOptions, s \in FetchedOptions, y \in ContextOptions,
        h \in HeuristicOptions}
    \cup {Html(h \o y \o s \o r \o p) :
        p \in PreloadedOptions, r \in RootAppOptions, s \in FetchedOptions,
        y \in ContextOptions, h \in HeuristicOptions}

-----------------------------------------------------------------------------
(* the specification of the finder, the normalizer and the feed *)

\* no function is called on its own
NoSeed == seed_url = <<>> /\ raw_criteria = None /\ seed = <<>>

NoEnrich == fetched = None /\ enriched = <<>> /\ enrich_stats = None

\* _find_quote_lists is not run step by step
NoWalk == walk_stack = <<>> /\ walk_found = <<>> /\ expanded = <<>> /\ walk_base = <<>>

\* _request_with_retry is not called on its own
NoRetry ==
    /\ max_attempts = 0
    /\ attempt = 0
    /\ sleeps = 0
    /\ responses = <<>>
    /\ retry_result = None

\* the driver is in use
NoQuit == quits = 0 /\ quit_failed = FALSE

\* no client is built on its own
NoClient ==
    /\ supplied_region = <<>>
    /\ supplied_criteria = None
    /\ client = None
    /\ posted = <<>>

NoSide == NoWalk /\ NoRetry /\ NoQuit /\ NoClient

\* run_crawl is not running
NoCrawl ==
    /\ strict = FALSE
    /\ feed_result = None
    /\ crawl_source = "html"
    /\ state_source = "html"
    /\ retried = FALSE
    /\ csv = None
    /\ raised = None

NoCall ==
    /\ call_text = <<>>
    /\ call_index = 0
    /\ call_result = None
    /\ NoSeed
    /\ NoEnrich
    /\ NoCrawl
    /\ NoSide
    /\ requested = <<>>

NoStats ==
    [total_items |-> 0, duplicates |-> 0, pages |-> 0, total_expected |-> None,
     offset |-> 0]

Init ==
    /\ mode \in {"html", "feed"}
    /\ IF mode = "html" THEN state \in Trees /\ pc = "known"
       ELSE state = None /\ pc = "fetch"
    /\ tried = <<>>
    /\ best = NoCand
    /\ quotes = <<>>
    /\ err = NoErr
    /\ rows = <<>>
    /\ rows_data = <<>>
    /\ rerun = <<>>
    /\ records = <<>>
    /\ normalized = <<>>
    /\ seen = <<>>
    /\ fstats = NoStats
    /\ page = <<>>
    /\ located = None
    /\ attempted = <<>>
    /\ artifacts = <<>>
    /\ NoCall

FetchAll == \E response \in FeedResponses : FetchAllPage(response)

Next ==
    \/ TryKnownPaths
    \/ TryStores
    \/ TrySection
    \/ TryWholeTree
    \/ NormalizeEquities
    \/ AsDictRows
    \/ Renormalize
    \/ FetchAll

Spec == Init /\ [][Next]_vars

-----------------------------------------------------------------------------
(* the specification of the state locator *)

InitLocator ==
    /\ mode = "page"
    /\ page \in Pages
    /\ pc = "next_data"
    /\ state = None
    /\ tried = <<>>
    /\ best = NoCand
    /\ quotes = <<>>
    /\ err = NoErr
    /\ rows = <<>>
    /\ rows_data = <<>>
    /\ rerun = <<>>
    /\ records = <<>>
    /\ normalized = <<>>
    /\ seen = <<>>
    /\ fstats = NoStats
    /\ located = None
    /\ attempted = <<>>
    /\ artifacts = <<>>
    /\ NoCall

NextLocator ==
    \/ ExtractNextData
    \/ ExtractPreloaded
    \/ ExtractRootApp
    \/ ExtractSvelteKit
    \/ ExtractYahooContext
    \/ ExtractHeuristic

\* the while loop of fetch_all goes on to its next turn by itself
SpecFetchAll == Spec /\ WF_vars(FetchAll)

SpecLocator == InitLocator /\ [][NextLocator]_vars

-----------------------------------------------------------------------------
(* the specification of the balanced extractor, called on its own *)

MaxText == 6

TextAtoms == {"{", "}", "\"", "\\", "a"}

\* the texts of up to MaxText atoms
Texts == UNION {[1..n -> TextAtoms] : n \in 1..MaxText}

\* the run does nothing but the call
NoRun ==
    /\ state = None
    /\ tried = <<>>
    /\ best = NoCand
    /\ quotes = <<>>
    /\ err = NoErr
    /\ rows = <<>>
    /\ rows_data = <<>>
    /\ rerun = <<>>
    /\ records = <<>>
    /\ normalized = <<>>
    /\ seen = <<>>
    /\ fstats = NoStats
    /\ page = <<>>
    /\ located = None
    /\ attempted = <<>>
    /\ artifacts = <<>>

\* the callers hand in the index of a { (lines 193-196, 257-260)
InitBalanced ==
    /\ mode = "balanced"
    /\ pc = "call"
    /\ call_text \in Texts
    /\ call_index \in {i \in 1..Len(call_text) : call_text[i] = "{"}
    /\ call_result = None
    /\ NoSeed
    /\ NoEnrich
    /\ NoCrawl
    /\ NoRun
    /\ requested = <<>>
    /\ NoSide

ExtractBalancedJson ==
    /\ mode = "balanced"
    /\ pc = "call"
    /\ call_result' = _extract_balanced_json(call_text, call_index)
    /\ pc' = "returned"
    /\ UNCHANGED <<mode, state, tried, best, quotes, err, rows, rows_data, rerun, records,
                   normalized, seen, fstats, page, located, attempted, artifacts,
                   call_text, call_index, seed_vars, enrich_vars, crawl_vars>>
    /\ UNCHANGED requested
    /\ UNCHANGED side_vars

NextBalanced == ExtractBalancedJson

SpecBalanced == InitBalanced /\ [][NextBalanced]_vars

-----------------------------------------------------------------------------
(* parser.py: the screener seed *)

\* the parser of BeautifulSoup(page_source, "lxml") on the attribute text of a tag,
\* from index i: names with quoted values (&amp; decoded) and names without a value
RECURSIVE SoupAttrsFrom(_, _, _)
SoupAttrsFrom(attrs_text, i, attrs) ==
    LET names == {n \in i..Len(attrs_text) : attrs_text[n] \in NameAtoms} IN
    IF names = {} THEN attrs
    ELSE LET n == First(names)
             eq == SkipWs(attrs_text, n + 1)
             open == SkipWs(attrs_text, eq + 1)
         IN IF At(attrs_text, eq) # "="
            THEN SoupAttrsFrom(attrs_text, n + 1,
                     IF HasKey(attrs, <<attrs_text[n]>>) THEN attrs
                     ELSE DictPut(attrs, <<attrs_text[n]>>, Str(<<>>)))
            ELSE IF At(attrs_text, open) \notin {"\"", "'"}
                    \/ Find(attrs_text, {At(attrs_text, open)}, open + 1) = 0
            THEN attrs
            ELSE SoupAttrsFrom(attrs_text,
                     Find(attrs_text, {At(attrs_text, open)}, open + 1) + 1,
                     IF HasKey(attrs, <<attrs_text[n]>>) THEN attrs
                     ELSE DictPut(attrs, <<attrs_text[n]>>,
                              Str([k \in 1..(Find(attrs_text, {At(attrs_text, open)}, open + 1)
                                             - open - 1) |->
                                     IF attrs_text[open + k] = "&amp;" THEN "&"
                                     ELSE attrs_text[open + k]])))

\* soup.find_all("script"): the attributes and the text of each script element
RECURSIVE SoupScriptsFrom(_, _)
SoupScriptsFrom(page_source, start) ==
    LET open == Find(page_source, OpenTags, start) IN
    IF open = 0 THEN <<>>
    ELSE LET gt == Find(page_source, {">"}, open + 1) IN
         IF gt = 0 THEN <<>>
         ELSE LET close == Find(page_source, CloseTags, gt + 1) IN
              IF close = 0 THEN <<>>
              ELSE <<[attrs |-> SoupAttrsFrom(SubSeq(page_source, open + 1, gt - 1), 1,
                                              Dict(<<>>)),
                      string |-> SubSeq(page_source, gt + 1, close - 1)]>>
                   \o SoupScriptsFrom(page_source, close + 1)

\* the AttributeError of .get() on a value that is not a dict
AttributeError == [t |-> "AttributeError"]

\* lines 296-309 with the rawCriteria string returned as it is
_extract_raw_criteria_undecoded(payload) ==
    IF ~IsDict(payload) THEN AttributeError
    ELSE LET finance == IF HasKey(payload, W("finance")) THEN Get(payload, W("finance"))
                        ELSE Dict(<<>>)
         IN IF ~IsDict(finance) THEN AttributeError
            ELSE LET result == Get(finance, W("result")) IN
                 IF ~IsList(result) THEN None
                 ELSE IF result.xs = <<>> THEN None
                 ELSE IF ~IsDict(result.xs[1]) THEN None
                 ELSE Get(result.xs[1], W("rawCriteria"))

\* lines 296-309
_extract_raw_criteria(payload) ==
    IF ~IsDict(payload) THEN AttributeError
    ELSE LET finance == IF HasKey(payload, W("finance")) THEN Get(payload, W("finance"))
                        ELSE Dict(<<>>)
         IN IF ~IsDict(finance) THEN AttributeError
            ELSE LET result == Get(finance, W("result")) IN
                 IF ~IsList(result) THEN None
                 ELSE IF result.xs = <<>> THEN None
                 ELSE IF ~IsDict(result.xs[1]) THEN None
                 ELSE LET raw == Get(result.xs[1], W("rawCriteria")) IN
                      IF ~IsStr(raw) THEN None
                      ELSE IF Loads(raw.s) = JSONDecodeError THEN None
                      ELSE Loads(raw.s)

\* lines 312-324
_parse_seed_body(body) ==
    LET outer == Loads(body) IN
    IF outer = JSONDecodeError THEN None
    ELSE IF ~IsDict(outer) THEN AttributeError
    ELSE LET raw_body == Get(outer, W("body")) IN
         IF ~IsStr(raw_body) THEN None
         ELSE IF Loads(raw_body.s) = JSONDecodeError THEN None
         ELSE _extract_raw_criteria(Loads(raw_body.s))

\* data_url.replace("&amp;", "&")
ReplaceAmp(s) == [k \in 1..Len(s) |-> IF s[k] = "&amp;" THEN "&" ELSE s[k]]

\* lines 31-42: the (url, criteria) returned, or the AttributeError raised
RECURSIVE SeedLoop(_)
SeedLoop(scripts) ==
    IF scripts = <<>> THEN <<None, None>>
    ELSE LET script == Head(scripts)
             data_url == Get(script.attrs, W("data-url"))
         IN IF ~HasKey(script.attrs, W("data-sveltekit-fetched"))
            THEN SeedLoop(Tail(scripts))
            ELSE IF ~Truthy(data_url) THEN SeedLoop(Tail(scripts))
            ELSE IF ~IsInfix(<<"predefined/saved">>, data_url.s)
            THEN SeedLoop(Tail(scripts))
            ELSE IF Strip(script.string) = <<>> THEN <<Str(ReplaceAmp(data_url.s)), None>>
            ELSE IF _parse_seed_body(Strip(script.string)) = AttributeError
            THEN AttributeError
            ELSE <<Str(ReplaceAmp(data_url.s)), _parse_seed_body(Strip(script.string))>>

\* lines 25-42
extract_screener_seed(page_source) == SeedLoop(SoupScriptsFrom(page_source, 1))

ExtractScreenerSeed ==
    /\ mode = "seed"
    /\ pc = "call"
    /\ seed' = extract_screener_seed(page)
    /\ pc' = "returned"
    /\ UNCHANGED <<mode, state, tried, best, quotes, err, rows, rows_data, rerun, records,
                   normalized, seen, fstats, page, located, attempted, artifacts,
                   call_text, call_index, call_result, seed_url, raw_criteria,
                   enrich_vars, crawl_vars>>
    /\ UNCHANGED requested
    /\ UNCHANGED side_vars

-----------------------------------------------------------------------------
(* the specification of the seed extractor, called on its own *)

SeedUrls ==
    {<<"https://host/", "predefined/saved">>,
     <<"https://host/", "predefined/saved", "?", "count=25", "&", "start=0">>}

\* the URL as an attribute value: & written &amp; or left as it is
AttrValues(url) ==
    {url, [k \in 1..Len(url) |-> IF url[k] = "&" THEN "&amp;" ELSE url[k]]}

SeedCriteria ==
    {Obj1("size", Num(25)),
     Dict(<<>>),
     Dict(<< <<W("offset"), Num(0)>>, <<W("size"), Num(25)>>,
             <<W("query"),
               Dict(<< <<W("operator"), SW("and")>>,
                       <<W("operands"),
                         List(<<Dict(<< <<W("operator"), SW("eq")>>,
                                        <<W("operands"),
                                          List(<<SW("region"), SW("us")>>)>> >>)>>)>> >>)>> >>),
     Obj1("note", Str(<<"a", "\"", "b", "\\", "c">>)),
     Obj1("url", Str(<<"x", "&amp;", "y">>))}

\* payload = {"finance": {"result": [{"rawCriteria": json.dumps(raw_criteria)}]}}, bare
\* or with other keys and a second result around it
SeedPayloads(criteria) ==
    {Obj1("finance", Obj1("result", List(<<Obj1("rawCriteria", Str(Dumps(criteria)))>>))),
     Dict(<< <<W("finance"),
               Dict(<< <<W("result"),
                         List(<<Dict(<< <<W("total"), Num(3)>>,
                                        <<W("rawCriteria"), Str(Dumps(criteria))>> >>),
                                Obj1("rawCriteria", Str(Dumps(Obj1("size", Num(5)))))>>)>>,
                       <<W("error"), None>> >>)>> >>)}

\* body = json.dumps({"status": 200, "body": json.dumps(payload)})
SeedBody(payload) ==
    Dumps(Dict(<< <<W("status"), Num(200)>>, <<W("body"), Str(Dumps(payload))>> >>))

SeedScript(value, body) ==
    Script(TypeJsonAttr \o FetchedAttr \o <<" ", "data-url", "=", "\"">> \o value \o <<"\"">>,
           body)

\* the pages whose first script with the marker and a predefined/saved URL is the
\* seed script of body
SeedLayouts(value, body) ==
    {Html(SeedScript(value, body)),
     Html(Script(TypeJsonAttr, Dumps(S_context_0))
          \o Script(TypeJsonAttr \o FetchedAttr
                        \o <<" ", "data-url", "=", "\"", "other/url", "\"">>,
                    Dumps(Obj1("status", Num(200))))
          \o SeedScript(value, body)),
     Html(SeedScript(value, body)
          \o SeedScript(<<"predefined/saved">>,
                        SeedBody(Obj1("finance", Obj1("result", List(<<>>)))))),
     Html(<<"<SCRIPT", " ", "data-url", " ", "=", " ", "'">> \o value
          \o <<"'", " ", "data-sveltekit-fetched", "=", "\"", "\"", ">", "\n", " ">>
          \o body \o <<"\n", "</SCRIPT>">>)}

\* bodies that do not hold an encoded criteria object
OtherBodies ==
    {<<>>,
     <<" ">>,
     NotJson,
     Dumps(List(<<Num(1)>>)),
     Dumps(Obj1("status", Num(200))),
     SeedBody(List(<<>>)),
     SeedBody(Obj1("finance", None)),
     SeedBody(Dict(<<>>)),
     SeedBody(Obj1("finance", Obj1("result", List(<<>>)))),
     SeedBody(Obj1("finance", Obj1("result", List(<<Num(1)>>)))),
     SeedBody(Obj1("finance", Obj1("result", List(<<Obj1("rawCriteria", Dict(<<>>))>>)))),
     SeedBody(Obj1("finance", Obj1("result", List(<<Obj1("rawCriteria", Str(NotJson))>>))))}

InitSeed ==
    /\ mode = "seed"
    /\ pc = "call"
    /\ seed_url \in SeedUrls
    /\ raw_criteria \in SeedCriteria \cup {None}
    /\ IF raw_criteria = None
       THEN page \in {Html(<<>>), Html(Script(TypeJsonAttr \o FetchedAttr, NotJson))}
                     \cup UNION {SeedLayouts(seed_url, body) : body \in OtherBodies}
       ELSE page \in UNION {SeedLayouts(value, SeedBody(payload)) :
                               value \in AttrValues(seed_url),
                               payload \in SeedPayloads(raw_criteria)}
    /\ seed = <<>>
    /\ call_text = <<>>
    /\ call_index = 0
    /\ call_result = None
    /\ NoEnrich
    /\ NoCrawl
    /\ state = None
    /\ tried = <<>>
    /\ best = NoCand
    /\ quotes = <<>>
    /\ err = NoErr
    /\ rows = <<>>
    /\ rows_data = <<>>
    /\ rerun = <<>>
    /\ records = <<>>
    /\ normalized = <<>>
    /\ seen = <<>>
    /\ fstats = NoStats
    /\ located = None
    /\ attempted = <<>>
    /\ artifacts = <<>>
    /\ requested = <<>>
    /\ NoSide

NextSeed == ExtractScreenerSeed

SpecSeed == InitSeed /\ [][NextSeed]_vars

-----------------------------------------------------------------------------
(* quote_client.py: enrich_rows *)

\* lines 217-225: str(int(value)), str(value) when int() raises
_normalize_market_cap(value) ==
    IF value = None THEN None
    ELSE LET v == IF IsDict(value) THEN PyOr(Get(value, W("raw")), Get(value, W("fmt")))
                  ELSE value
         IN IF v.t = "num" THEN Str(IntStr(v.n))
            ELSE IF v.t = "bool" THEN Str(IF v.b THEN <<"1">> ELSE <<"0">>)
            ELSE IF IsStr(v) /\ IsDigits(v.s) THEN Str(IntStr(DigitsValue(v.s)))
            ELSE PyStr(v)

\* lines 90-96: the quotes of the results by symbol, a later result replacing an
\* earlier one of the same symbol
RECURSIVE QuoteMap(_, _)
QuoteMap(results, quote_map) ==
    IF results = <<>> THEN quote_map
    ELSE IF Truthy(Get(Head(results), W("symbol")))
    THEN QuoteMap(Tail(results),
                  DictPut(quote_map, Get(Head(results), W("symbol")), Head(results)))
    ELSE QuoteMap(Tail(results), quote_map)

\* lines 75-96: fetch_quotes for a response that is missing or not 200 ("none"), or
\* that decodes to a payload
fetch_quotes(response) ==
    IF response.kind = "none" THEN Dict(<<>>)
    ELSE IF ~IsDict(response.payload) THEN AttributeError
    ELSE LET quoteResponse == IF HasKey(response.payload, W("quoteResponse"))
                              THEN Get(response.payload, W("quoteResponse"))
                              ELSE Dict(<<>>)
         IN IF ~IsDict(quoteResponse) THEN AttributeError
            ELSE IF ~HasKey(quoteResponse, W("result")) THEN Dict(<<>>)
            ELSE IF ~IsList(Get(quoteResponse, W("result"))) THEN AttributeError
            ELSE IF \E i \in 1..Len(Get(quoteResponse, W("result")).xs) :
                        ~IsDict(Get(quoteResponse, W("result")).xs[i])
            THEN AttributeError
            ELSE QuoteMap(Get(quoteResponse, W("result")).xs, Dict(<<>>))

\* lines 119-130 for one row: the row after the turn of the loop and what the turn
\* adds to enriched_currency and enriched_market_cap
EnrichRow(row, quote_map) ==
    LET quote == Get(quote_map, Get(row, W("symbol")))
        currency == PyOr(Get(quote, W("currency")), Get(quote, W("financialCurrency")))
        market_cap == _normalize_market_cap(Get(quote, W("marketCap")))
        fill_currency == Truthy(currency) /\ ~Truthy(Get(row, W("currency")))
        fill_market_cap == Truthy(market_cap) /\ ~Truthy(Get(row, W("market_cap")))
        with_currency == IF fill_currency THEN DictPut(row, W("currency"), currency)
                         ELSE row
    IN IF ~Truthy(quote) THEN [row |-> row, currency |-> 0, market_cap |-> 0]
       ELSE [row |-> IF fill_market_cap
                     THEN DictPut(with_currency, W("market_cap"), market_cap)
                     ELSE with_currency,
             currency |-> IF fill_currency THEN 1 ELSE 0,
             market_cap |-> IF fill_market_cap THEN 1 ELSE 0]

\* the sum of the counts of the turns
RECURSIVE SumOf(_, _)
SumOf(turns, field) ==
    IF turns = <<>> THEN 0 ELSE Head(turns)[field] + SumOf(Tail(turns), field)

EnrichmentStats(total_symbols, batches, enriched_currency, enriched_market_cap, failures) ==
    [total_symbols |-> total_symbols, batches |-> batches,
     enriched_currency |-> enriched_currency,
     enriched_market_cap |-> enriched_market_cap, failures |-> failures]

\* lines 98-141 for rows that fit in one batch: <<rows, stats>>, or the error raised
enrich_rows(rs, response) ==
    LET symbols == SelectSeq(rs, LAMBDA row : Truthy(Get(row, W("symbol"))))
        quote_map == fetch_quotes(response)
        turns == [i \in 1..Len(rs) |-> EnrichRow(rs[i], quote_map)]
    IN IF symbols = <<>> THEN <<rs, EnrichmentStats(0, 0, 0, 0, 0)>>
       ELSE IF quote_map = AttributeError THEN AttributeError
       ELSE <<[i \in 1..Len(rs) |-> turns[i].row],
              EnrichmentStats(Len(symbols), 1, SumOf(turns, "currency"),
                              SumOf(turns, "market_cap"),
                              IF Truthy(quote_map) THEN 0 ELSE 1)>>

\* run_crawl line 154, called on its own
EnrichRows ==
    /\ mode = "enrich"
    /\ pc = "call"
    /\ LET r == enrich_rows(rows_data, fetched) IN
       IF r = AttributeError
       THEN err' = AttributeError /\ pc' = "raised" /\ UNCHANGED <<enriched, enrich_stats>>
       ELSE enriched' = r[1] /\ enrich_stats' = r[2] /\ pc' = "returned" /\ UNCHANGED err
    /\ UNCHANGED <<mode, state, tried, best, quotes, rows, rows_data, rerun, records,
                   normalized, seen, fstats, page, located, attempted, artifacts,
                   call_text, call_index, call_result, seed_vars, fetched, crawl_vars>>
    /\ UNCHANGED requested
    /\ UNCHANGED side_vars

-----------------------------------------------------------------------------
(* the specification of the enrichment, called on its own *)

MaxRows == 2

\* a row of rows_data: the keys of asdict(row), some left out as in the tests
DataRow(symbol, currency, market_cap) ==
    Dict(Entry("symbol", symbol) \o Entry("name", SW("Co")) \o Entry("market_cap", market_cap)
         \o Entry("price", Num(1)) \o Entry("currency", currency))

DataRows ==
    {DataRow(SW("ABC"), Str(<<>>), Str(<<>>)),
     DataRow(SW("ABC"), SW("USD"), Str(<<"9", "9", "9">>)),
     DataRow(SW("XYZ"), Absent, Absent),
     DataRow(SW("XYZ"), None, Num(0)),
     DataRow(SW("ABC"), SW("EUR"), None),
     DataRow(None, Str(<<>>), Str(<<>>))}

QuoteItem(symbol, currency, financialCurrency, marketCap) ==
    Dict(Entry("symbol", symbol) \o Entry("currency", currency)
         \o Entry("financialCurrency", financialCurrency) \o Entry("marketCap", marketCap))

QuoteResponse(results) ==
    [kind |-> "ok", payload |-> Obj1("quoteResponse", Obj1("result", List(results)))]

QuoteResponses ==
    {[kind |-> "none"],
     [kind |-> "ok", payload |-> List(<<>>)],
     [kind |-> "ok", payload |-> Dict(<<>>)],
     QuoteResponse(<<>>),
     QuoteResponse(<<QuoteItem(SW("ABC"), SW("USD"), Absent, Num(123))>>),
     QuoteResponse(<<QuoteItem(SW("ABC"), Absent, SW("BRL"),
                               Wrapper(Num(5), Str(<<"5">>)))>>),
     QuoteResponse(<<QuoteItem(SW("ABC"), Str(<<>>), Absent, None),
                     QuoteItem(SW("XYZ"), SW("ARS"), Absent, Str(<<"0", "1", "2">>))>>),
     QuoteResponse(<<QuoteItem(SW("XYZ"), Absent, Absent, Dict(<<>>)),
                     QuoteItem(Absent, SW("USD"), Absent, Num(7))>>)}

InitEnrich ==
    /\ mode = "enrich"
    /\ pc = "call"
    /\ rows_data \in SeqsUpTo(DataRows, MaxRows)
    /\ fetched \in QuoteResponses
    /\ enriched = <<>>
    /\ enrich_stats = None
    /\ call_text = <<>>
    /\ call_index = 0
    /\ call_result = None
    /\ NoSeed
    /\ NoCrawl
    /\ state = None
    /\ tried = <<>>
    /\ best = NoCand
    /\ quotes = <<>>
    /\ err = NoErr
    /\ rows = <<>>
    /\ rerun = <<>>
    /\ records = <<>>
    /\ normalized = <<>>
    /\ seen = <<>>
    /\ fstats = NoStats
    /\ page = <<>>
    /\ located = None
    /\ attempted = <<>>
    /\ artifacts = <<>>
    /\ requested = <<>>
    /\ NoSide

NextEnrich == EnrichRows

SpecEnrich == InitEnrich /\ [][NextEnrich]_vars

-----------------------------------------------------------------------------
(* run_crawl.py: run_crawl from the loaded page to the CSV file *)

\* a code unit that utf-8 cannot encode (a lone surrogate, as json.loads gives for
\* "\ud800")
Surrogate == "\\ud800"

\* the text the csv writer puts in a field: "" for None, str(value) otherwise
CsvField(value) == IF value = None THEN <<>> ELSE PyStr(value).s

\* lines 198-210: payload, in the order of the headers
CsvPayload(row, is_strict, region) ==
    LET symbol == IF HasKey(row, W("symbol")) THEN Get(row, W("symbol")) ELSE Str(<<>>)
        name == PyOr(Get(row, W("name")), Str(<<>>))
        price == PyOr(Get(row, W("price")), Str(<<>>))
    IN  IF is_strict
        THEN <<CsvField(symbol), CsvField(name), CsvField(price)>>
        ELSE <<CsvField(symbol), CsvField(name),
               CsvField(PyOr(Get(row, W("exchange")), Str(<<>>))),
               CsvField(PyOr(Get(row, W("market_cap")), Str(<<>>))),
               CsvField(price),
               CsvField(PyOr(Get(row, W("currency")), Str(<<>>))),
               CsvField(region)>>

\* the line can be encoded as utf-8 (line 191: encoding="utf-8")
Encodable(line) ==
    \A f \in 1..Len(line) : \A k \in 1..Len(line[f]) : line[f][k] # Surrogate

\* the index of the first row whose line cannot be encoded, Len(rs) + 1 when none
FirstUnencodable(rs, is_strict, region) ==
    LET bad == {i \in 1..Len(rs) : ~Encodable(CsvPayload(rs[i], is_strict, region))} IN
    IF bad = {} THEN Len(rs) + 1
    ELSE CHOOSE i \in bad : \A j \in bad : i <= j

UnicodeEncodeError == [t |-> "UnicodeEncodeError"]

Region == SW("us")

\* lines 188-210: the file as it is left behind and the error raised, None when none
_write_csv(rs, is_strict, region) ==
    LET stop == FirstUnencodable(rs, is_strict, region) IN
    [file |-> [headers |-> IF is_strict THEN "MINIMAL_HEADERS" ELSE "CSV_HEADERS",
               lines |-> [i \in 1..(stop - 1) |-> CsvPayload(rs[i], is_strict, region)]],
     error |-> IF stop <= Len(rs) THEN UnicodeEncodeError ELSE None]

\* what screener.fetch_all() does: it raises, or returns rows made by _normalize_item
FeedResults ==
    {[kind |-> "raised"],
     [kind |-> "rows", rows |-> <<>>],
     [kind |-> "rows", rows |-> <<_normalize_item(qABC)>>],
     [kind |-> "rows",
      rows |-> <<_normalize_item(qXYZ),
                 _normalize_item(Dict(<< <<W("symbol"), SW("ABC")>>,
                                         <<W("shortName"), Str(<<"a", Surrogate>>)>>,
                                         <<W("regularMarketPrice"), Num(1)>> >>)),
                 _normalize_item(qTCK)>>]}

\* what nav.get_runtime_state() returns: None or a dict
RuntimeStates == {None, Dict(<<>>), S_context_0, S_preloaded}

\* lines 213-220: the file written for a state that gave no quotes
_save_parse_state(st) == [path |-> ParseFailPath, state |-> st]

\* what the browser raises
WebDriverException == [t |-> "WebDriverException"]

\* lines 48-55: nav.open(), nav.wait_for_screener_seed(), nav.get_page_source(); the
\* error of the browser leaves run_crawl
RunOpen ==
    /\ mode = "run"
    /\ pc = "run_open"
    /\ \E opened \in BOOLEAN :
          IF opened
          THEN pc' = "run_seed" /\ UNCHANGED raised
          ELSE raised' = WebDriverException /\ pc' = "run_failed"
    /\ UNCHANGED <<mode, state, tried, best, quotes, err, rows, rows_data, rerun, records,
                   normalized, seen, fstats, page, located, attempted, artifacts,
                   call_text, call_index, call_result, seed_vars,
                   enrich_vars, strict, feed_result, crawl_source, state_source,
                   retried, csv>>
    /\ UNCHANGED requested
    /\ UNCHANGED side_vars

\* line 71: extract_screener_seed(result.page_source); its error leaves run_crawl
RunSeed ==
    /\ mode = "run"
    /\ pc = "run_seed"
    /\ LET r == extract_screener_seed(page) IN
       IF r = AttributeError
       THEN raised' = AttributeError /\ pc' = "run_failed" /\ UNCHANGED seed
       ELSE seed' = r /\ pc' = "run_feed" /\ UNCHANGED raised
    /\ UNCHANGED <<mode, state, tried, best, quotes, err, rows, rows_data, rerun, records,
                   normalized, seen, fstats, page, located, attempted, artifacts,
                   call_text, call_index, call_result, seed_url, raw_criteria,
                   enrich_vars, strict, feed_result, crawl_source, state_source,
                   retried, csv>>
    /\ UNCHANGED requested
    /\ UNCHANGED side_vars

\* lines 83-110 with the page parsed only when the feed raised
RunFeed_rows_kept ==
    /\ mode = "run"
    /\ pc = "run_feed"
    /\ \E r \in FeedResults :
        /\ feed_result' = r
        /\ IF r.kind = "rows"
           THEN /\ rows_data' = r.rows
                /\ crawl_source' = "screener_api"
                /\ pc' = "run_enrich"
           ELSE /\ pc' = "next_data"
                /\ UNCHANGED <<rows_data, crawl_source>>
    /\ UNCHANGED <<mode, state, tried, best, quotes, err, rows, rerun, records,
                   normalized, seen, fstats, page, located, attempted, artifacts,
                   call_text, call_index, call_result, seed_vars,
                   enrich_vars, strict, state_source, retried, csv, raised>>
    /\ UNCHANGED requested
    /\ UNCHANGED side_vars

\* lines 83-110: the feed is asked; its error is logged and dropped; with no row the
\* page is parsed next
RunFeed ==
    /\ mode = "run"
    /\ pc = "run_feed"
    /\ \E r \in FeedResults :
        /\ feed_result' = r
        /\ IF r.kind = "rows" /\ r.rows # <<>>
           THEN /\ rows_data' = r.rows
                /\ crawl_source' = "screener_api"
                /\ pc' = "run_enrich"
           ELSE /\ pc' = "next_data"
                /\ UNCHANGED <<rows_data, crawl_source>>
    /\ UNCHANGED <<mode, state, tried, best, quotes, err, rows, rerun, records,
                   normalized, seen, fstats, page, located, attempted, artifacts,
                   call_text, call_index, call_result, seed_vars,
                   enrich_vars, strict, state_source, retried, csv, raised>>
    /\ UNCHANGED requested
    /\ UNCHANGED side_vars

\* lines 111-120: the state of the page, or the runtime state when the page gave none
RunState ==
    /\ mode = "run"
    /\ pc \in {"located", "locate_failed"}
    /\ IF pc = "located"
       THEN /\ state' = located
            /\ pc' = "known"
            /\ UNCHANGED <<state_source, raised>>
       ELSE \E rt \in RuntimeStates :
            /\ state' = rt
            /\ state_source' = "runtime"
            /\ IF rt = None
               THEN raised' = err /\ pc' = "run_failed"
               ELSE pc' = "known" /\ UNCHANGED raised
    /\ UNCHANGED <<mode, tried, best, quotes, err, rows, rows_data, rerun, records,
                   normalized, seen, fstats, page, located, attempted, artifacts,
                   call_text, call_index, call_result, seed_vars,
                   enrich_vars, strict, feed_result, crawl_source, retried, csv>>
    /\ UNCHANGED requested
    /\ UNCHANGED side_vars

\* lines 125-145: extract_quotes failed; the runtime state is tried once, and the
\* failure of that second try leaves run_crawl as it is
RunRetry ==
    /\ mode = "run"
    /\ pc = "quotes_failed"
    /\ IF retried
       THEN /\ raised' = err
            /\ pc' = "run_failed"
            /\ UNCHANGED <<state, state_source, retried, artifacts>>
       ELSE \E rt \in RuntimeStates :
            IF Truthy(rt)
            THEN /\ state' = rt
                 /\ state_source' = "runtime"
                 /\ retried' = TRUE
                 /\ pc' = "known"
                 /\ UNCHANGED <<raised, artifacts>>
            ELSE /\ artifacts' = Append(artifacts, _save_parse_state(state))
                 /\ raised' = err
                 /\ pc' = "run_failed"
                 /\ UNCHANGED <<state, state_source, retried>>
    /\ UNCHANGED <<mode, tried, best, quotes, err, rows, rows_data, rerun, records,
                   normalized, seen, fstats, page, located, attempted,
                   call_text, call_index, call_result, seed_vars,
                   enrich_vars, strict, feed_result, crawl_source, csv>>
    /\ UNCHANGED requested
    /\ UNCHANGED side_vars

\* line 147: source = state_source
RunSource ==
    /\ mode = "run"
    /\ pc = "rows_data"
    /\ crawl_source' = state_source
    /\ pc' = "run_enrich"
    /\ UNCHANGED <<mode, state, tried, best, quotes, err, rows, rows_data, rerun, records,
                   normalized, seen, fstats, page, located, attempted, artifacts,
                   call_text, call_index, call_result, seed_vars,
                   enrich_vars, strict, feed_result, state_source, retried, csv, raised>>
    /\ UNCHANGED requested
    /\ UNCHANGED side_vars

\* lines 148-165: enrich_rows; its error is logged and the rows stay as they are
RunEnrich ==
    /\ mode = "run"
    /\ pc = "run_enrich"
    /\ \E q \in QuoteResponses :
        /\ fetched' = q
        /\ LET r == enrich_rows(rows_data, q) IN
           IF r = AttributeError
           THEN UNCHANGED <<rows_data, enriched, enrich_stats>>
           ELSE rows_data' = r[1] /\ enriched' = r[1] /\ enrich_stats' = r[2]
    /\ pc' = "run_write"
    /\ UNCHANGED <<mode, state, tried, best, quotes, err, rows, rerun, records,
                   normalized, seen, fstats, page, located, attempted, artifacts,
                   call_text, call_index, call_result, seed_vars, crawl_vars>>
    /\ UNCHANGED requested
    /\ UNCHANGED side_vars

\* lines 177-178: _write_csv(rows_data, output_path, ...)
RunWriteCsv ==
    /\ mode = "run"
    /\ pc = "run_write"
    /\ LET w == _write_csv(rows_data, strict, Region) IN
       /\ csv' = w.file
       /\ raised' = w.error
       /\ pc' = IF w.error = None THEN "run_done" ELSE "run_failed"
    /\ UNCHANGED <<mode, state, tried, best, quotes, err, rows, rows_data, rerun, records,
                   normalized, seen, fstats, page, located, attempted, artifacts,
                   call_text, call_index, call_result, seed_vars,
                   enrich_vars, strict, feed_result, crawl_source, state_source, retried>>
    /\ UNCHANGED requested
    /\ UNCHANGED side_vars

\* lines 181-185 with the error of driver.quit() leaving run_crawl
RunQuit_propagating ==
    /\ mode = "run"
    /\ pc \in {"run_done", "run_failed"}
    /\ \E quit_raises \in BOOLEAN :
          /\ quit_failed' = quit_raises
          /\ raised' = IF quit_raises THEN WebDriverException ELSE raised
    /\ quits' = quits + 1
    /\ pc' = "left"
    /\ UNCHANGED <<mode, state, tried, best, quotes, err, rows, rows_data, rerun, records,
                   normalized, seen, fstats, page, located, attempted, artifacts,
                   call_text, call_index, call_result, seed_vars,
                   enrich_vars, strict, feed_result, crawl_source, state_source,
                   retried, csv>>
    /\ UNCHANGED <<requested, walk_vars, retry_vars, client_vars>>

\* lines 181-185: the finally clause; driver.quit() is called, its error is logged, and
\* run_crawl returns or goes on raising what the try block raised
RunQuit ==
    /\ mode = "run"
    /\ pc \in {"run_done", "run_failed"}
    /\ \E quit_raises \in BOOLEAN : quit_failed' = quit_raises
    /\ quits' = quits + 1
    /\ pc' = "left"
    /\ UNCHANGED <<mode, state, tried, best, quotes, err, rows, rows_data, rerun, records,
                   normalized, seen, fstats, page, located, attempted, artifacts,
                   call_text, call_index, call_result, seed_vars,
                   enrich_vars, crawl_vars>>
    /\ UNCHANGED <<requested, walk_vars, retry_vars, client_vars>>

-----------------------------------------------------------------------------
(* the specification of run_crawl *)

RunPages ==
    {Html(<<>>),
     Html(Script(IdAttr, Dumps(S_next))),
     Html(Script(IdAttr, Dumps(Dict(<<>>)))),
     Html(Assigned("__PRELOADED_STATE__", Unfinished)),
     Html(Assigned("YAHOO.context", Dumps(S_context_0))
          \o Script(<<>>, <<"var", " ", "quotes", " ", "=", " ">> \o Dumps(S_heuristic)
                          \o <<";">>)),
     Html(SeedScript(<<"https://host/", "predefined/saved">>,
                     SeedBody(Obj1("finance", Obj1("result",
                         List(<<Obj1("rawCriteria",
                                     Str(Dumps(Obj1("size", Num(25)))))>>)))))),
     Html(SeedScript(<<"https://host/", "predefined/saved">>, SeedBody(List(<<>>))))}

InitRun ==
    /\ mode = "run"
    /\ pc = "run_open"
    /\ page \in RunPages
    /\ strict \in BOOLEAN
    /\ feed_result = None
    /\ crawl_source = "html"
    /\ state_source = "html"
    /\ retried = FALSE
    /\ csv = None
    /\ raised = None
    /\ call_text = <<>>
    /\ call_index = 0
    /\ call_result = None
    /\ NoSeed
    /\ NoEnrich
    /\ state = None
    /\ tried = <<>>
    /\ best = NoCand
    /\ quotes = <<>>
    /\ err = NoErr
    /\ rows = <<>>
    /\ rows_data = <<>>
    /\ rerun = <<>>
    /\ records = <<>>
    /\ normalized = <<>>
    /\ seen = <<>>
    /\ fstats = NoStats
    /\ located = None
    /\ attempted = <<>>
    /\ artifacts = <<>>
    /\ requested = <<>>
    /\ NoSide

NextRun ==
    \/ RunOpen
    \/ RunSeed
    \/ RunFeed
    \/ ExtractNextData
    \/ ExtractPreloaded
    \/ ExtractRootApp
    \/ ExtractSvelteKit
    \/ ExtractYahooContext
    \/ ExtractHeuristic
    \/ RunState
    \/ TryKnownPaths
    \/ TryStores
    \/ TrySection
    \/ TryWholeTree
    \/ RunRetry
    \/ NormalizeEquities
    \/ AsDictRows
    \/ RunSource
    \/ RunEnrich
    \/ RunWriteCsv
    \/ RunQuit

SpecRun == InitRun /\ [][NextRun]_vars

-----------------------------------------------------------------------------
(* parser.py: the while loop of _find_quote_lists, one turn at a time *)

\* lines 409-430 without the test of the depth
FindStep_unbounded ==
    /\ mode = "walk"
    /\ pc = "call"
    /\ walk_stack # <<>>
    /\ LET node == walk_stack[Len(walk_stack)][1]
           path == walk_stack[Len(walk_stack)][2]
           rest == SubSeq(walk_stack, 1, Len(walk_stack) - 1)
       IN /\ IF IsDict(node)
             THEN /\ walk_stack' = rest \o DictPushes(node, path)
                  /\ walk_found' = walk_found \o DictCandidates(node, path)
                  /\ expanded' = Append(expanded, path)
             ELSE IF IsList(node)
             THEN /\ walk_stack' = rest \o ListPushes(node, path)
                  /\ expanded' = Append(expanded, path)
                  /\ UNCHANGED walk_found
             ELSE /\ walk_stack' = rest
                  /\ UNCHANGED <<walk_found, expanded>>
          /\ pc' = IF walk_stack' = <<>> THEN "returned" ELSE "call"
    /\ UNCHANGED <<mode, state, tried, best, quotes, err, rows, rows_data, rerun, records,
                   normalized, seen, fstats, page, located, attempted, artifacts,
                   call_text, call_index, call_result, seed_vars, enrich_vars,
                   crawl_vars, requested, walk_base, retry_vars, driver_vars,
                   client_vars>>

\* lines 409-430: one turn of the loop; line 431 when the stack is empty
FindStep ==
    /\ mode = "walk"
    /\ pc = "call"
    /\ walk_stack # <<>>
    /\ LET node == walk_stack[Len(walk_stack)][1]
           path == walk_stack[Len(walk_stack)][2]
           rest == SubSeq(walk_stack, 1, Len(walk_stack) - 1)
       IN /\ IF Len(path) > max_depth
             THEN /\ walk_stack' = rest
                  /\ UNCHANGED <<walk_found, expanded>>
             ELSE IF IsDict(node)
             THEN /\ walk_stack' = rest \o DictPushes(node, path)
                  /\ walk_found' = walk_found \o DictCandidates(node, path)
                  /\ expanded' = Append(expanded, path)
             ELSE IF IsList(node)
             THEN /\ walk_stack' = rest \o ListPushes(node, path)
                  /\ expanded' = Append(expanded, path)
                  /\ UNCHANGED walk_found
             ELSE /\ walk_stack' = rest
                  /\ UNCHANGED <<walk_found, expanded>>
          /\ pc' = IF walk_stack' = <<>> THEN "returned" ELSE "call"
    /\ UNCHANGED <<mode, state, tried, best, quotes, err, rows, rows_data, rerun, records,
                   normalized, seen, fstats, page, located, attempted, artifacts,
                   call_text, call_index, call_result, seed_vars, enrich_vars,
                   crawl_vars, requested, walk_base, retry_vars, driver_vars,
                   client_vars>>

-----------------------------------------------------------------------------
(* the specification of _find_quote_lists, called on its own *)

\* trees with a list of quotes around the depth limit, and trees with lists in lists
\* and a mapping under quotes
WalkTrees ==
    {Obj1("deep", Chain(d, Obj1("items", L_AX))) :
        d \in (max_depth - 5)..(max_depth + 1)}
    \cup {Obj1("data", List(<<L_AX, List(<<Obj1("quotes", QuotesDict)>>)>>)),
          Dict(<< <<W("data"), L_Mixed>>, <<W("more"), Obj1("items", L_None)>> >>),
          List(<<Obj1("results", L_Two), Num(5)>>),
          Dict(<<>>)}

\* base paths: the root, the stores of line 99, a section of line 103
WalkBases == {<<>>, StoresPath, <<K("props")>>}

InitWalk ==
    /\ mode = "walk"
    /\ pc = "call"
    /\ state \in WalkTrees
    /\ walk_base \in WalkBases
    /\ walk_stack = << <<state, walk_base>> >>
    /\ walk_found = <<>>
    /\ expanded = <<>>
    /\ NoRetry
    /\ NoQuit
    /\ NoClient
    /\ requested = <<>>
    /\ call_text = <<>>
    /\ call_index = 0
    /\ call_result = None
    /\ NoSeed
    /\ NoEnrich
    /\ NoCrawl
    /\ tried = <<>>
    /\ best = NoCand
    /\ quotes = <<>>
    /\ err = NoErr
    /\ rows = <<>>
    /\ rows_data = <<>>
    /\ rerun = <<>>
    /\ records = <<>>
    /\ normalized = <<>>
    /\ seen = <<>>
    /\ fstats = NoStats
    /\ page = <<>>
    /\ located = None
    /\ attempted = <<>>
    /\ artifacts = <<>>

NextWalk == FindStep

\* the loop goes on to its next turn by itself
SpecWalk == InitWalk /\ [][NextWalk]_vars /\ WF_vars(FindStep)

-----------------------------------------------------------------------------
(* screener_client.py, quote_client.py: _request_with_retry and _sleep_backoff *)

\* the default of the constructors (both clients)
default_max_attempts == 5

\* the largest number of attempts a client is built with, besides the default
MaxAttempts == 3

\* the characters of a Retry-After header: str.isdigit() holds of the decimal digits
\* and of the other digit characters as well (superscript two is one), int() reads
\* the decimal digits only
DecimalChars == {"0", "3"}

DigitChars == DecimalChars \cup {"sup2"}

isdigit(s) == s # <<>> /\ \A i \in 1..Len(s) : s[i] \in DigitChars

IntParses(s) == s # <<>> /\ \A i \in 1..Len(s) : s[i] \in DecimalChars

\* the exception int() raises
ValueError == [kind |-> "ValueError"]

\* time.sleep(delay) was called
Slept == [kind |-> "slept"]

\* the Retry-After headers: absent, seconds, a date, a digit that is not decimal
RetryAfterValues == {None, Str(<<"3">>), Str(<<"d", "3">>), Str(<<"sup2">>)}

\* what self._session.request() does: raises requests.RequestException, or answers
Transports ==
    {[kind |-> "exception"]}
    \cup {[kind |-> "response", status_code |-> c, retry_after |-> h] :
            c \in {429, 503}, h \in RetryAfterValues}
    \cup {[kind |-> "response", status_code |-> c, retry_after |-> None] :
            c \in {200, 404, 500}}

\* lines 221-227: Slept after time.sleep(delay), ValueError when int(retry_after) raises
_sleep_backoff(retry_after) ==
    IF Truthy(retry_after) /\ isdigit(retry_after.s)
    THEN IF IntParses(retry_after.s) THEN Slept ELSE ValueError
    ELSE Slept

\* the parts of one turn of the for loop: the call returns `value`
RetryReturn(value) ==
    /\ pc' = "returned"
    /\ retry_result' = value
    /\ UNCHANGED <<sleeps, err>>

\* _sleep_backoff, then continue
RetrySleep(retry_after) ==
    IF _sleep_backoff(retry_after) = ValueError
    THEN /\ pc' = "raised"
         /\ err' = ValueError
         /\ UNCHANGED <<sleeps, retry_result>>
    ELSE /\ pc' = "call"
         /\ sleeps' = sleeps + 1
         /\ UNCHANGED <<retry_result, err>>

\* lines 193-218: one turn of the for loop, with `transport` what the session does
RequestAttempt(transport) ==
    /\ mode = "retry"
    /\ pc = "call"
    /\ attempt < max_attempts
    /\ attempt' = attempt + 1
    /\ responses' = Append(responses, transport)
    /\ IF transport.kind = "exception"
       THEN IF attempt' = max_attempts
            THEN RetryReturn(None)
            ELSE RetrySleep(None)
       ELSE IF transport.status_code \in {429, 503}
       THEN IF attempt' = max_attempts
            THEN RetryReturn(transport)
            ELSE RetrySleep(transport.retry_after)
       ELSE RetryReturn(transport)
    /\ UNCHANGED <<mode, state, tried, best, quotes, rows, rows_data, rerun, records,
                   normalized, seen, fstats, page, located, attempted, artifacts,
                   call_text, call_index, call_result, seed_vars, enrich_vars,
                   crawl_vars, requested, walk_vars, driver_vars, client_vars,
                   max_attempts>>

\* line 219: the range of the for loop is used up (it is empty)
RequestExhausted ==
    /\ mode = "retry"
    /\ pc = "call"
    /\ attempt >= max_attempts
    /\ pc' = "returned"
    /\ retry_result' = None
    /\ UNCHANGED <<mode, state, tried, best, quotes, err, rows, rows_data, rerun, records,
                   normalized, seen, fstats, page, located, attempted, artifacts,
                   call_text, call_index, call_result, seed_vars, enrich_vars,
                   crawl_vars, requested, walk_vars, driver_vars, client_vars,
                   max_attempts, attempt, sleeps, responses>>

-----------------------------------------------------------------------------
(* the specification of _request_with_retry, called on its own *)

InitRetry ==
    /\ mode = "retry"
    /\ pc = "call"
    /\ max_attempts \in (0..MaxAttempts) \cup {default_max_attempts}
    /\ attempt = 0
    /\ sleeps = 0
    /\ responses = <<>>
    /\ retry_result = None
    /\ NoWalk
    /\ NoQuit
    /\ NoClient
    /\ requested = <<>>
    /\ call_text = <<>>
    /\ call_index = 0
    /\ call_result = None
    /\ NoSeed
    /\ NoEnrich
    /\ NoCrawl
    /\ state = None
    /\ tried = <<>>
    /\ best = NoCand
    /\ quotes = <<>>
    /\ err = NoErr
    /\ rows = <<>>
    /\ rows_data = <<>>
    /\ rerun = <<>>
    /\ records = <<>>
    /\ normalized = <<>>
    /\ seen = <<>>
    /\ fstats = NoStats
    /\ page = <<>>
    /\ located = None
    /\ attempted = <<>>
    /\ artifacts = <<>>

NextRetry ==
    \/ \E transport \in Transports : RequestAttempt(transport)
    \/ RequestExhausted

SpecRetry == InitRetry /\ [][NextRetry]_vars

-----------------------------------------------------------------------------
(* run_crawl.py lines 83-110 around the pages of fetch_all *)

\* lines 93-110: fetch_all has returned or raised; run_crawl takes the rows, or with
\* none of them goes on to the state of the page
RunFeedFetched ==
    /\ mode = "run"
    /\ pc \in {"feed_done", "feed_failed"}
    /\ IF pc = "feed_failed"
       THEN /\ feed_result' = [kind |-> "raised"]
            /\ pc' = "next_data"
            /\ UNCHANGED <<rows_data, crawl_source>>
       ELSE LET returned == FetchAllReturn(seen, fstats)[1] IN
            /\ feed_result' = [kind |-> "rows", rows |-> returned]
            /\ IF returned # <<>>
               THEN /\ rows_data' = returned
                    /\ crawl_source' = "screener_api"
                    /\ pc' = "run_enrich"
               ELSE /\ pc' = "next_data"
                    /\ UNCHANGED <<rows_data, crawl_source>>
    /\ UNCHANGED <<mode, state, tried, best, quotes, err, rows, rerun, records,
                   normalized, seen, fstats, page, located, attempted, artifacts,
                   call_text, call_index, call_result, seed_vars,
                   enrich_vars, strict, state_source, retried, csv, raised>>
    /\ UNCHANGED requested
    /\ UNCHANGED side_vars

InitFeedRun ==
    /\ mode = "run"
    /\ pc = "fetch"
    /\ state = None
    /\ tried = <<>>
    /\ best = NoCand
    /\ quotes = <<>>
    /\ err = NoErr
    /\ rows = <<>>
    /\ rows_data = <<>>
    /\ rerun = <<>>
    /\ records = <<>>
    /\ normalized = <<>>
    /\ seen = <<>>
    /\ fstats = NoStats
    /\ page = <<>>
    /\ located = None
    /\ attempted = <<>>
    /\ artifacts = <<>>
    /\ NoCall

NextFeedRun ==
    \/ FetchAll
    \/ RunFeedFetched

SpecFeedRun == InitFeedRun /\ [][NextFeedRun]_vars

-----------------------------------------------------------------------------
(* screener_client.py: the criteria of the client *)

\* the letters of the regions below
LowerLetters == <<"a", "b", "i", "l", "r", "s", "u", "z">>
UpperLetters == <<"A", "B", "I", "L", "R", "S", "U", "Z">>

\* str.upper(), str.lower()
upper(s) ==
    [i \in 1..Len(s) |->
        IF \E k \in 1..Len(LowerLetters) : LowerLetters[k] = s[i]
        THEN UpperLetters[CHOOSE k \in 1..Len(LowerLetters) : LowerLetters[k] = s[i]]
        ELSE s[i]]

lower(s) ==
    [i \in 1..Len(s) |->
        IF \E k \in 1..Len(UpperLetters) : UpperLetters[k] = s[i]
        THEN LowerLetters[CHOOSE k \in 1..Len(UpperLetters) : UpperLetters[k] = s[i]]
        ELSE s[i]]

\* lines 21-27: the entry of REGION_MAP spelt with these letters
Brazil == <<"B", "r", "a", "z", "i", "l">>

\* lines 360-363
_normalize_region(name) ==
    IF Len(name) = 2 THEN upper(name)
    ELSE IF name = Brazil THEN <<"B", "R">>
    ELSE upper(name)

\* json.loads(json.dumps(value))
Clone(value) == Loads(Dumps(value))

\* d[key] = value
SetItem(d, key, value) ==
    IF HasKey(d, key)
    THEN Dict([i \in 1..Len(d.kv) |->
                 IF d.kv[i][1] = key THEN <<key, value>> ELSE d.kv[i]])
    ELSE Dict(Append(d.kv, <<key, value>>))

\* {"operator": "eq", "operands": ["region", region]}
RegionOperand(r) ==
    Dict(<< <<W("operator"), SW("eq")>>,
            <<W("operands"), List(<<SW("region"), Str(r)>>)>> >>)

\* lines 375-386
_default_criteria(r) ==
    Dict(<< <<W("offset"), Num(0)>>,
            <<W("size"), Num(25)>>,
            <<W("sortType"), SW("DESC")>>,
            <<W("sortField"), SW("intradaymarketcap")>>,
            <<W("quoteType"), SW("EQUITY")>>,
            <<W("query"),
              Dict(<< <<W("operator"), SW("and")>>,
                      <<W("operands"), List(<<RegionOperand(lower(r))>>)>> >>)>> >>)

\* lines 411-418: the operand of the loop whose second value is overwritten
IsRegionEq(operand) ==
    /\ IsDict(operand)
    /\ Get(operand, W("operator")) = SW("eq")
    /\ IsList(Get(operand, W("operands")))
    /\ Len(Get(operand, W("operands")).xs) >= 2
    /\ Get(operand, W("operands")).xs[1] = SW("region")

\* lines 404-420: the criteria as the call leaves them
_ensure_region_filter(cr, r) ==
    LET query == Get(cr, W("query")) IN
    IF ~IsDict(query) THEN cr
    ELSE LET operands == Get(query, W("operands")) IN
         IF ~IsList(operands) THEN cr
         ELSE LET hits == {i \in 1..Len(operands.xs) : IsRegionEq(operands.xs[i])}
                  changed ==
                      IF hits = {}
                      THEN Append(operands.xs, RegionOperand(r))
                      ELSE LET first == CHOOSE i \in hits : \A j \in hits : i <= j
                               values == Get(operands.xs[first], W("operands")).xs
                           IN [operands.xs EXCEPT ![first] =
                                  SetItem(@, W("operands"),
                                          List([values EXCEPT ![2] = Str(r)]))]
              IN SetItem(cr, W("query"), SetItem(query, W("operands"), List(changed)))

\* lines 389-394
_prepare_criteria(cr, r) ==
    IF ~IsDict(cr) THEN None
    ELSE _ensure_region_filter(Clone(cr), lower(r))

\* lines 397-401
_apply_paging(cr, from, size) ==
    SetItem(SetItem(Clone(cr), W("offset"), Num(from)), W("size"), Num(size))

\* lines 56 and 61-64: the region and the criteria of the new client
NewClient ==
    /\ mode = "client"
    /\ pc = "call"
    /\ LET r == _normalize_region(supplied_region) IN
       client' = [region |-> r,
                  criteria |-> IF supplied_criteria = None THEN _default_criteria(r)
                               ELSE _prepare_criteria(supplied_criteria, r)]
    /\ pc' = "ready"
    /\ UNCHANGED <<mode, state, tried, best, quotes, err, rows, rows_data, rerun, records,
                   normalized, seen, fstats, page, located, attempted, artifacts,
                   call_text, call_index, call_result, seed_vars, enrich_vars,
                   crawl_vars, requested, walk_vars, retry_vars, driver_vars,
                   supplied_region,
                   supplied_criteria, posted>>

\* the page requests made of one client
MaxPosts == 2

\* lines 83-98: the request of fetch_page(from): a POST of the criteria with the paging
\* set, or a GET when the client has no criteria
FetchPageRequest(from) ==
    /\ mode = "client"
    /\ pc = "ready"
    /\ Len(posted) < MaxPosts
    /\ posted' = Append(posted,
          IF Truthy(client.criteria)
          THEN [method |-> "POST", body |-> _apply_paging(client.criteria, from, count)]
          ELSE [method |-> "GET", body |-> None])
    /\ UNCHANGED <<mode, pc, state, tried, best, quotes, err, rows, rows_data, rerun,
                   records, normalized, seen, fstats, page, located, attempted, artifacts,
                   call_text, call_index, call_result, seed_vars, enrich_vars,
                   crawl_vars, requested, walk_vars, retry_vars, driver_vars,
                   supplied_region,
                   supplied_criteria, client>>

-----------------------------------------------------------------------------
(* the specification of the criteria of a client *)

\* query.operands of the criteria a caller may hand in
EqOperand(field, value) ==
    Dict(<< <<W("operator"), SW("eq")>>,
            <<W("operands"), List(<<SW(field), SW(value)>>)>> >>)

QueryOf(operands) ==
    Obj1("query", Dict(<< <<W("operator"), SW("and")>>, <<W("operands"), operands>> >>))

\* None, values that are not a mapping, and mappings with and without query.operands
SuppliedCriteria ==
    {None, List(<<>>), Dict(<<>>),
     Obj1("size", Num(25)),
     Obj1("query", SW("all")),
     Obj1("query", Obj1("operator", SW("and"))),
     QueryOf(List(<<>>)),
     QueryOf(List(<<EqOperand("region", "ar")>>)),
     QueryOf(List(<<Num(5), EqOperand("exchange", "NMS"), EqOperand("region", "ar"),
                    EqOperand("region", "cl")>>)),
     QueryOf(List(<<Dict(<< <<W("operator"), SW("gt")>>,
                            <<W("operands"), List(<<SW("region"), Num(1)>>)>> >>)>>)),
     Dict(<< <<W("offset"), Num(50)>>, <<W("size"), Num(100)>> >>
          \o QueryOf(List(<<EqOperand("exchange", "NMS")>>)).kv)}

SuppliedRegions == {<<"u", "s">>, <<"B", "R">>, Brazil, <<"b", "r", "a", "s", "i", "l">>}

InitClient ==
    /\ mode = "client"
    /\ pc = "call"
    /\ supplied_criteria \in SuppliedCriteria
    /\ supplied_region \in SuppliedRegions
    /\ client = None
    /\ posted = <<>>
    /\ NoWalk
    /\ NoRetry
    /\ NoQuit
    /\ requested = <<>>
    /\ call_text = <<>>
    /\ call_index = 0
    /\ call_result = None
    /\ NoSeed
    /\ NoEnrich
    /\ NoCrawl
    /\ state = None
    /\ tried = <<>>
    /\ best = NoCand
    /\ quotes = <<>>
    /\ err = NoErr
    /\ rows = <<>>
    /\ rows_data = <<>>
    /\ rerun = <<>>
    /\ records = <<>>
    /\ normalized = <<>>
    /\ seen = <<>>
    /\ fstats = NoStats
    /\ page = <<>>
    /\ located = None
    /\ attempted = <<>>
    /\ artifacts = <<>>

NextClient ==
    \/ NewClient
    \/ \E from \in {0, count, 2 * count} : FetchPageRequest(from)

SpecClient == InitClient /\ [][NextClient]_vars

-----------------------------------------------------------------------------
(* what the claims speak of *)

StrategyOrder == <<"known", "stores", "section_1", "section_2", "section_3", "whole">>

\* the subtree a strategy is scoped to, spelled out for each strategy
ScopeBase(s) ==
    CASE s = "stores" -> <<K("context"), K("dispatcher"), K("stores")>>
      [] s = "section_1" -> <<K("props"), K("pageProps")>>
      [] s = "section_2" -> <<K("pageProps")>>
      [] s = "section_3" -> <<K("props")>>
      [] OTHER -> <<>>

\* the strategy has something to search in this tree
Applicable(s, st) ==
    CASE s = "stores" -> IsDict(_get_path(st, ScopeBase(s)))
      [] s \in {"section_1", "section_2", "section_3"} ->
            IsDict(_get_path(st, ScopeBase(s))) \/ IsList(_get_path(st, ScopeBase(s)))
      [] OTHER -> TRUE

StrategyCands(s, st) ==
    IF s = "known" THEN _candidates_from_known_paths(st)
    ELSE _find_quote_lists(_get_path(st, ScopeBase(s)), ScopeBase(s))

Yields(s, st) == Applicable(s, st) /\ StrategyCands(s, st) # <<>>

\* the first n strategies, those with nothing to search in left out
RECURSIVE EvaluatedUpTo(_, _)
EvaluatedUpTo(n, st) ==
    IF n = 0 THEN <<>>
    ELSE EvaluatedUpTo(n - 1, st)
         \o (IF Applicable(StrategyOrder[n], st) THEN <<StrategyOrder[n]>> ELSE <<>>)

Returned == pc \in {"quotes_found", "normalized", "rows_data", "renormalized"}
Failed == pc = "quotes_failed"
Searching == mode = "html" /\ ~Returned /\ ~Failed

\* C2: extract_quotes evaluates known paths, stores, props.pageProps, pageProps, props
\* and the whole tree in this order, each only when every earlier one yielded no
\* candidate, and returns the best candidate of the first strategy that yields one.
C2_StrategiesInOrder ==
    mode = "html" =>
        \E n \in 0..Len(StrategyOrder) :
            /\ tried = EvaluatedUpTo(n, state)
            /\ \A i \in 1..n : Yields(StrategyOrder[i], state) => (i = n /\ Returned)
            /\ Searching => pc = StrategyOrder[n + 1]
            /\ Failed => n = Len(StrategyOrder)
            /\ Returned =>
                /\ n >= 1
                /\ Yields(StrategyOrder[n], state)
                /\ best = _pick_best_candidate(StrategyCands(StrategyOrder[n], state))
                /\ quotes = best.list

C2_Witness ==
    /\ pc = "quotes_found"
    /\ tried = <<"known", "stores", "section_1", "section_3", "whole">>

\* C4: the candidate picked has the maximal score of its strategy's candidates and,
\* among those of maximal score, the maximal length; a strategy picks nothing only
\* when it has no candidate.
C4_BestIsMaximal ==
    /\ Returned =>
        LET cs == StrategyCands(tried[Len(tried)], state) IN
        /\ \E i \in 1..Len(cs) : cs[i] = best
        /\ \A i \in 1..Len(cs) :
            /\ cs[i].score <= best.score
            /\ cs[i].score = best.score => Len(cs[i].list) <= Len(best.list)
    /\ \A i \in 1..Len(tried) :
        (i < Len(tried) \/ ~Returned) => StrategyCands(tried[i], state) = <<>>

C4_Witness ==
    /\ pc = "quotes_found"
    /\ LET cs == StrategyCands(tried[Len(tried)], state) IN
       \E i, j \in 1..Len(cs) :
           /\ i < j
           /\ cs[i].score = cs[j].score
           /\ Len(cs[i].list) < Len(cs[j].list)
           /\ cs[j] = best

\* every node of a tree with its path from the root
RECURSIVE NodesAt(_, _)
NodesAt(v, path) ==
    {<<path, v>>}
    \cup (IF IsDict(v)
          THEN UNION {NodesAt(v.kv[i][2], Append(path, KS(v.kv[i][1]))) :
                        i \in 1..Len(v.kv)}
          ELSE IF IsList(v)
          THEN UNION {NodesAt(v.xs[i], Append(path, Ix(i - 1))) : i \in 1..Len(v.xs)}
          ELSE {})

HasValue(v) ==
    v \notin {None, Str(<<>>), Num(0), Bool(FALSE), List(<<>>), Dict(<<>>)}

\* a mapping with a non-empty symbol or ticker
SymbolBearing(el) ==
    IsDict(el) /\ (HasValue(Get(el, W("symbol"))) \/ HasValue(Get(el, W("ticker"))))

\* a mapping with a symbol or ticker field, whatever it holds
HasSymbolField(el) ==
    IsDict(el) /\ (HasKey(el, W("symbol")) \/ HasKey(el, W("ticker")))

\* a list of dictionaries each containing a unique symbol
QuoteLike(xs) ==
    /\ xs # <<>>
    /\ \A i \in 1..Len(xs) : IsDict(xs[i]) /\ HasKey(xs[i], W("symbol"))
    /\ \A i, j \in 1..Len(xs) :
        i # j => Get(xs[i], W("symbol")) # Get(xs[j], W("symbol"))

QuoteLikeLists(st) == {n \in NodesAt(st, <<>>) : IsList(n[2]) /\ QuoteLike(n[2].xs)}

\* the lists with an element that has a non-empty symbol or ticker
SymbolLists(st) ==
    {n \in NodesAt(st, <<>>) :
        IsList(n[2]) /\ \E i \in 1..Len(n[2].xs) : SymbolBearing(n[2].xs[i])}

\* the mappings extract_quotes may read as the list of their values: those under a
\* key quotes and those at a known path
QuotesMappings(st) ==
    {n \in NodesAt(st, <<>>) :
        /\ IsDict(n[2])
        /\ n[1] # <<>>
        /\ \/ n[1][Len(n[1])] = K("quotes")
           \/ \E i \in 1..Len(_KNOWN_PATHS) : n[1] = _KNOWN_PATHS[i]}

Finished == mode = "html" /\ (Returned \/ Failed)

\* C3 as stated: when exactly one path leads to a list of dictionaries each containing
\* a unique symbol, extract_quotes returns that list.
C3_Original ==
    (Finished /\ Cardinality(QuoteLikeLists(state)) = 1) =>
        /\ Returned
        /\ \A n \in QuoteLikeLists(state) : quotes = n[2].xs

\* C3 amended: when exactly one list has an element with a non-empty symbol or ticker,
\* that list is the value of a mapping key at most 17 path segments from the root, and
\* no mapping under a key quotes or at a known path has such a value, extract_quotes
\* returns that list.
C3_OnlyCandidateReturned ==
    (/\ Finished
     /\ Cardinality(SymbolLists(state)) = 1
     /\ \A n \in SymbolLists(state) : IsKeyPart(n[1][Len(n[1])]) /\ Len(n[1]) <= 17
     /\ \A m \in QuotesMappings(state) :
            \A i \in 1..Len(m[2].kv) : ~SymbolBearing(m[2].kv[i][2]))
    => /\ Returned
       /\ \A n \in SymbolLists(state) : quotes = n[2].xs

C3_Witness ==
    /\ pc = "quotes_found"
    /\ Cardinality(SymbolLists(state)) = 1
    /\ QuotesMappings(state) = {}
    /\ \A n \in SymbolLists(state) :
        IsKeyPart(n[1][Len(n[1])]) /\ Len(n[1]) = 17 /\ quotes = n[2].xs /\ Len(quotes) = 2

StoresOf(st) ==
    IF IsDict(Get(st, W("context"))) /\ IsDict(Get(Get(st, W("context")), W("dispatcher")))
    THEN Get(Get(Get(st, W("context")), W("dispatcher")), W("stores"))
    ELSE None

NoListHasSymbolField(st) ==
    \A n \in NodesAt(st, <<>>) :
        IsList(n[2]) => \A i \in 1..Len(n[2].xs) : ~HasSymbolField(n[2].xs[i])

NoMappingReadAsListHasSymbolField(st) ==
    \A m \in QuotesMappings(st) : \A i \in 1..Len(m[2].kv) : ~HasSymbolField(m[2].kv[i][2])

ReportsKeys ==
    /\ err.kind = "QuotesNotFound"
    /\ err.top_keys = Keys(state)
    /\ err.store_keys = (IF IsDict(StoresOf(state)) THEN Keys(StoresOf(state)) ELSE <<>>)

\* C5 as stated: when no list of the tree contains an element with a symbol or ticker
\* field, extract_quotes fails with the quotes-not-found error, which reports the
\* top-level keys and the keys of the stores subtree.
C5_Original ==
    (Finished /\ NoListHasSymbolField(state)) => (Failed /\ ReportsKeys)

\* C5 amended: when no list of the tree, and no mapping under a key quotes or at a
\* known path, contains an element (a value) with a symbol or ticker field,
\* extract_quotes fails with the quotes-not-found error, which reports the top-level
\* keys (the first 40) and the keys of the stores subtree.
C5_NoSymbolFieldFails ==
    (/\ Finished
     /\ NoListHasSymbolField(state)
     /\ NoMappingReadAsListHasSymbolField(state)
     /\ Len(state.kv) <= 40)
    => (Failed /\ ReportsKeys)

C5_Witness ==
    /\ Failed
    /\ NoListHasSymbolField(state)
    /\ NoMappingReadAsListHasSymbolField(state)
    /\ ReportsKeys
    /\ err.store_keys # <<>>
    /\ \E n \in NodesAt(state, <<>>) : IsList(n[2]) /\ n[2].xs # <<>>

-----------------------------------------------------------------------------
(* the normalizers *)

HtmlNormalized == pc \in {"normalized", "rows_data", "renormalized"}
FeedPageDone == mode = "feed" /\ pc \in {"fetch", "feed_done"} /\ fstats.pages > 0

\* the elements that are mappings with a non-empty symbol or ticker, in input order
Kept == SelectSeq(quotes, SymbolBearing)

NonEmptyStr(v) == IsStr(v) /\ v.s # <<>>

\* C6: normalize_equities and _normalize_item drop exactly the elements that are not
\* mappings or have no symbol/ticker value (absent, null or empty), every other element
\* yields one row, in input order, and every row has a non-empty symbol.
C6_RowsHaveSymbol ==
    /\ HtmlNormalized =>
        /\ Len(rows) = Len(Kept)
        /\ \A i \in 1..Len(rows) :
            /\ NonEmptyStr(rows[i].symbol)
            /\ rows[i].symbol =
                  PyStr(IF HasValue(Get(Kept[i], W("symbol")))
                        THEN Get(Kept[i], W("symbol")) ELSE Get(Kept[i], W("ticker")))
    /\ pc \in {"rows_data", "renormalized"} =>
        /\ Len(rows_data) = Len(rows)
        /\ \A i \in 1..Len(rows_data) : Get(rows_data[i], W("symbol")) = rows[i].symbol
    /\ FeedPageDone =>
        /\ Len(normalized) = Len(records)
        /\ \A i \in 1..Len(records) :
            /\ normalized[i] = None <=> ~SymbolBearing(records[i])
            /\ normalized[i] # None =>
                /\ NonEmptyStr(Get(normalized[i], W("symbol")))
                /\ Get(normalized[i], W("symbol")) =
                      PyStr(IF HasValue(Get(records[i], W("ticker")))
                            THEN Get(records[i], W("ticker"))
                            ELSE Get(records[i], W("symbol")))
    /\ \A i \in 1..Len(seen) : NonEmptyStr(Get(seen[i], W("symbol")))

C6_Witness ==
    /\ pc = "normalized"
    /\ Len(quotes) = 2
    /\ ~IsDict(quotes[1])
    /\ Len(rows) = 1
    /\ rows[1].symbol = SW("TCK")

\* C7 as stated: with regularMarketPrice and regularMarketPreviousClose both present,
\* the price of the row is the value-normalized regularMarketPrice.
C7_Original ==
    HtmlNormalized =>
        \A i \in 1..Len(rows) :
            (HasKey(Kept[i], W("regularMarketPrice"))
             /\ HasKey(Kept[i], W("regularMarketPreviousClose")))
            => rows[i].price = _normalize_value(Get(Kept[i], W("regularMarketPrice")))

\* C7 amended: with regularMarketPrice present and not null, and
\* regularMarketPreviousClose present, the price of the row is the value-normalized
\* regularMarketPrice (a null regularMarketPrice counts as absent).
C7_PrefersRegularMarketPrice ==
    HtmlNormalized =>
        \A i \in 1..Len(rows) :
            (Get(Kept[i], W("regularMarketPrice")) # None
             /\ HasKey(Kept[i], W("regularMarketPreviousClose")))
            => rows[i].price = _normalize_value(Get(Kept[i], W("regularMarketPrice")))

C7_Witness ==
    /\ pc = "normalized"
    /\ \E i \in 1..Len(rows) :
        /\ Get(Kept[i], W("regularMarketPrice")) = Num(10)
        /\ Get(Kept[i], W("regularMarketPreviousClose")) = Num(5)
        /\ rows[i].price = Num(10)

\* the first field that is present (and not null) among the four price fields
FirstPresentPrice(q) ==
    IF Get(q, W("regularMarketPrice")) # None THEN Get(q, W("regularMarketPrice"))
    ELSE IF Get(q, W("regularMarketPreviousClose")) # None
    THEN Get(q, W("regularMarketPreviousClose"))
    ELSE IF Get(q, W("price")) # None THEN Get(q, W("price"))
    ELSE Get(q, W("lastPrice"))

\* C8: the price of a row is the value-normalized first present field among
\* regularMarketPrice, regularMarketPreviousClose, price, lastPrice; a later field is
\* used only when all earlier fields are absent.
C8_FirstPresentPrice ==
    /\ HtmlNormalized =>
        \A i \in 1..Len(rows) :
            rows[i].price = _normalize_value(FirstPresentPrice(Kept[i]))
    /\ FeedPageDone =>
        \A i \in 1..Len(records) :
            normalized[i] # None =>
                Get(normalized[i], W("price"))
                    = _normalize_value_sc(FirstPresentPrice(records[i]))

\* the raw entry when the key raw is present, else the fmt entry when fmt is present,
\* else the value itself
ValueNormalized(v) ==
    CASE IsDict(v) /\ HasKey(v, W("raw")) -> Get(v, W("raw"))
      [] IsDict(v) /\ ~HasKey(v, W("raw")) /\ HasKey(v, W("fmt")) -> Get(v, W("fmt"))
      [] OTHER -> v

\* C9: the market_cap and the price of a row are the raw entry of the field when it is
\* a mapping with raw, else its fmt entry when it has fmt, else the field unchanged; a
\* field {raw: 1234, fmt: "1,234"} gives 1234.
C9_ValueNormalization ==
    /\ HtmlNormalized =>
        \A i \in 1..Len(rows) :
            /\ rows[i].market_cap = ValueNormalized(Get(Kept[i], W("marketCap")))
            /\ rows[i].price = ValueNormalized(PriceValue(Kept[i]))
            /\ Get(Kept[i], W("marketCap")) = Wrapper(Num(1234), Fmt1234)
                => rows[i].market_cap = Num(1234)
    /\ FeedPageDone =>
        \A i \in 1..Len(records) :
            normalized[i] # None =>
                /\ Get(normalized[i], W("market_cap"))
                      = ValueNormalized(Get(records[i], W("marketCap")))
                /\ Get(normalized[i], W("price"))
                      = ValueNormalized(ItemPriceValue(records[i]))

C9_Witness ==
    /\ pc = "normalized"
    /\ Len(rows) = 1
    /\ Get(Kept[1], W("marketCap")) = Wrapper(Num(1234), Fmt1234)
    /\ rows[1].market_cap = Num(1234)

FlatScalar(v) == v.t \in {"null", "num", "str", "bool"}

RowFields == {W("symbol"), W("name"), W("exchange"), W("market_cap"), W("price"),
              W("currency")}

-----------------------------------------------------------------------------
(* the state locator *)

LocatorDone == pc \in {"located", "locate_failed"}

\* the JSON values the bodies of the labeled scripts are written from
JsonBodies == {S_next, S_next_2, Dict(<<>>), L_AX, None}

\* the bodies of the script elements whose id is __NEXT_DATA__
LabeledBodies ==
    {_iter_script_tags(page)[i][2] :
        i \in {k \in 1..Len(_iter_script_tags(page)) :
                  Get(_iter_script_tags(page)[k][1], W("id")) = SW("__NEXT_DATA__")}}

\* C1 as stated: when a script element with id __NEXT_DATA__ has a body that is valid
\* JSON, extract_embedded_state returns exactly the parsed body.
C1_Original ==
    LocatorDone =>
        \A v \in JsonBodies :
            Dumps(v) \in LabeledBodies => pc = "located" /\ located = v

\* the places where a lower-case <script tag carries id="__NEXT_DATA__" before its >
\* and a lower-case </script> follows
LabeledTagStarts ==
    {i \in 1..Len(page) :
        /\ page[i] = "<script"
        /\ \E gt \in (i + 1)..Len(page) :
            /\ page[gt] = ">"
            /\ \A m \in (i + 1)..(gt - 1) : page[m] # ">"
            /\ \E a \in (i + 1)..(gt - 5) :
                  SubSeq(page, a, a + 4) = <<"id", "=", "\"", "__NEXT_DATA__", "\"">>
            /\ \E c \in (gt + 1)..Len(page) : page[c] = "</script>"}

\* the text between the > of the first such tag and the first </script> after it
FirstLabeledText ==
    LET i == First(LabeledTagStarts)
        gt == CHOOSE g \in (i + 1)..Len(page) :
                  page[g] = ">" /\ \A m \in (i + 1)..(g - 1) : page[m] # ">"
        c == CHOOSE e \in (gt + 1)..Len(page) :
                  page[e] = "</script>" /\ \A m \in (gt + 1)..(e - 1) : page[m] # "</script>"
    IN SubSeq(page, gt + 1, c - 1)

\* the text is JSON text of v, white space around it allowed
IsJsonTextOf(text, v) ==
    \E a, b \in 0..Len(text) :
        /\ a + b <= Len(text)
        /\ \A m \in 1..a : text[m] \in {" ", "\n"}
        /\ \A m \in (Len(text) - b + 1)..Len(text) : text[m] \in {" ", "\n"}
        /\ SubSeq(text, a + 1, Len(text) - b) = Dumps(v)

\* C1 amended: when the body of the first script written <script ... id="__NEXT_DATA__"
\* ...> ... </script> (lower case, double quotes) is JSON text of an object,
\* extract_embedded_state returns exactly that object, trying no other convention and
\* writing no artifact, whichever other conventions the page holds; when it is JSON
\* text of another value, the not-an-object error is raised; when no script is
\* written that way, the labeled convention finds nothing and the next is tried.
C1_LabeledObjectReturned ==
    LocatorDone =>
        /\ LabeledTagStarts # {} =>
            \A v \in JsonBodies :
                IsJsonTextOf(FirstLabeledText, v) =>
                    /\ attempted = <<"next_data">>
                    /\ artifacts = <<>>
                    /\ IF IsDict(v) THEN pc = "located" /\ located = v
                       ELSE /\ pc = "locate_failed"
                            /\ err = RuntimeError("not_dict", "__NEXT_DATA__")
        /\ LabeledTagStarts = {} => Len(attempted) > 1 /\ attempted[2] = "preloaded"

C1_Witness ==
    /\ pc = "located"
    /\ located = S_next
    /\ attempted = <<"next_data">>
    /\ _extract_preloaded_state(page) = S_preloaded
    /\ IsError(_extract_root_app_state(page))

-----------------------------------------------------------------------------
(* malformed payloads *)

\* a well-formed payload of a global convention: an object opens where the match of
\* marker \s*=\s* ends, it is balanced and it decodes to an object
AssignedObject(marker) ==
    LET end == MarkerEnd(page, marker) IN
    /\ At(page, end) = "{"
    /\ ~IsError(_extract_balanced_json(page, end))
    /\ IsDict(Loads(_extract_balanced_json(page, end).s))

\* the marker of a global convention is there and no well-formed object follows it
MalformedGlobal(marker) == MarkerEnd(page, marker) # 0 /\ ~AssignedObject(marker)

\* the labeled script is there and its body is empty or is not JSON text of an object
MalformedLabeled ==
    /\ LabeledTagStarts # {}
    /\ \/ Strip(FirstLabeledText) = <<>>
       \/ ~IsDict(Loads(Strip(FirstLabeledText)))

\* the convention was the last one attempted and its error is the outcome
FatalAt(name) ==
    /\ pc = "locate_failed"
    /\ IsError(err)
    /\ attempted[Len(attempted)] = name

Attempted(name) == \E k \in 1..Len(attempted) : attempted[k] = name

\* C11: for __NEXT_DATA__, __PRELOADED_STATE__ and root.App.main, when the convention
\* is attempted and its marker is present but no object follows it, the object is
\* unbalanced, the body is empty or the text does not decode to an object, the error
\* is propagated and no later convention is attempted.
C11_MalformedIsFatal ==
    /\ Attempted("next_data") /\ MalformedLabeled => FatalAt("next_data")
    /\ Attempted("preloaded") /\ MalformedGlobal("__PRELOADED_STATE__")
           => FatalAt("preloaded")
    /\ Attempted("root_app") /\ MalformedGlobal("root.App.main") => FatalAt("root_app")

\* the script elements of a JSON content type, as indexes of _iter_script_tags(page)
JsonTyped ==
    {k \in 1..Len(_iter_script_tags(page)) :
        IsInfix(<<"application/json">>, ScriptType(_iter_script_tags(page)[k][1]).s)}

\* the body of the k-th script element is empty or is not JSON text
BadBody(k) ==
    \/ _iter_script_tags(page)[k][2] = <<>>
    \/ Loads(_iter_script_tags(page)[k][2]) = JSONDecodeError

\* the YAHOO.context marker is there and no well-formed object follows it
MalformedContext == MalformedGlobal("YAHOO.context")

UnreadableContext ==
    LET end == MarkerEnd(page, "YAHOO.context")
        start == Find(page, {"{"}, end)
    IN /\ end # 0
       /\ \/ start = 0
          \/ IsError(_extract_balanced_json(page, start))
          \/ ~IsDict(Loads(_extract_balanced_json(page, start).s))

-----------------------------------------------------------------------------
(* state not found *)

ConventionAtoms ==
    {"__NEXT_DATA__", "__PRELOADED_STATE__", "root.App.main", "YAHOO.context",
     "application/json"}

\* the page holds no marker of any convention
NoConvention == \A i \in 1..Len(page) : page[i] \notin ConventionAtoms

\* no script body holds one of the keywords
NoKeywordBody ==
    \A k \in 1..Len(_iter_script_tags(page)) :
        \A i \in 1..Len(_iter_script_tags(page)[k][2]) :
            _iter_script_tags(page)[k][2][i] \notin KeywordAtoms

AllConventions ==
    <<"next_data", "preloaded", "root_app", "sveltekit", "yahoo_context", "heuristic">>

\* C13: when a page holds no recognized convention and no script body with a keyword,
\* extract_embedded_state ends in the state-not-found error after all six attempts,
\* the artifact is written by then and its path is the one in the error; no artifact
\* is written in an execution that returns a state.
C13_NotFoundWritesArtifact ==
    /\ LocatorDone /\ NoConvention /\ NoKeywordBody =>
          /\ pc = "locate_failed"
          /\ err = StateNotFound
          /\ attempted = AllConventions
          /\ Len(artifacts) = 1
          /\ artifacts[1].path = err.artifact_path
          /\ artifacts[1].info = _collect_script_info(page)
    /\ err = StateNotFound => Len(artifacts) = 1 /\ artifacts[1].path = err.artifact_path
    /\ pc = "located" => artifacts = <<>>

C13_Witness ==
    /\ NoConvention
    /\ NoKeywordBody
    /\ pc = "locate_failed"
    /\ err = StateNotFound
    /\ Len(artifacts) = 1
    /\ artifacts[1].info.total_scripts = 1
    /\ artifacts[1].snippets[1].snippet # <<>>

-----------------------------------------------------------------------------
(* the balanced extractor *)

\* the quote at index k of a string opened at index open is escaped: the run of
\* backslashes that ends right before it, inside the string, has odd length
EscapedQuote(txt, open, k) ==
    LET run == {n \in 0..(k - open - 1) :
                   \A m \in (k - n)..(k - 1) : txt[m] = "\\"}
        longest == CHOOSE n \in run : \A o \in run : o <= n
    IN longest % 2 = 1

\* the quote that closes the string opened at index open, 0 when none does
StringClose(txt, open) ==
    LET closes == {k \in (open + 1)..Len(txt) :
                      txt[k] = "\"" /\ ~EscapedQuote(txt, open, k)}
    IN IF closes = {} THEN 0 ELSE First(closes)

\* from index i, outside any string, with d braces open: the index of the } that
\* closes the last of them, 0 when the text ends first
RECURSIVE ObjectEnd(_, _, _)
ObjectEnd(txt, i, d) ==
    IF i > Len(txt) THEN 0
    ELSE IF txt[i] = "\""
    THEN (IF StringClose(txt, i) = 0 THEN 0 ELSE ObjectEnd(txt, StringClose(txt, i) + 1, d))
    ELSE IF txt[i] = "{" THEN ObjectEnd(txt, i + 1, d + 1)
    ELSE IF txt[i] = "}" THEN (IF d = 1 THEN i ELSE ObjectEnd(txt, i + 1, d - 1))
    ELSE ObjectEnd(txt, i + 1, d)

\* C14: for a text and a start index pointing at {, _extract_balanced_json returns
\* the substring from that index up to and including the first } at which the depth of
\* the braces outside double-quoted strings is back to zero, an escaped quote not
\* closing a string; when the text ends before that, it raises the unbalanced error.
C14_BalancedSubstring ==
    mode = "balanced" /\ pc = "returned" =>
        IF ObjectEnd(call_text, call_index, 0) = 0
        THEN call_result = RuntimeError("unbalanced", "root.App.main")
        ELSE call_result = Str(SubSeq(call_text, call_index, ObjectEnd(call_text, call_index, 0)))

C14_Witness ==
    /\ mode = "balanced"
    /\ pc = "returned"
    /\ call_text = <<"{", "\"", "\\", "\"", "\"", "}">>
    /\ call_result = Str(call_text)

-----------------------------------------------------------------------------
(* the screener seed *)

\* C15: for a page whose first script with the fetch marker and a data-url holding
\* predefined/saved has the body {status, body: <JSON string>} with
\* finance.result[0].rawCriteria a JSON-encoded object, extract_screener_seed returns
\* the URL with &amp; decoded and the object that was encoded, all fields intact.
C15_SeedRoundTrip ==
    mode = "seed" /\ pc = "returned" /\ raw_criteria # None =>
        seed = <<Str(seed_url), raw_criteria>>

C15_Witness ==
    /\ mode = "seed"
    /\ pc = "returned"
    /\ Len(seed_url) > 2
    /\ \E k \in 1..Len(page) : page[k] = "&amp;"
    /\ IsDict(raw_criteria)
    /\ HasKey(raw_criteria, W("query"))
    /\ seed = <<Str(seed_url), raw_criteria>>

-----------------------------------------------------------------------------
(* the enrichment *)

\* the field is empty in the row: the key is missing, or its value is None or ""
EmptyField(row, key) == Get(row, key) \in {None, Str(<<>>)}

\* the symbol of the row has a fetched quote
HasQuote(row) ==
    /\ fetched.kind = "ok"
    /\ IsDict(fetched.payload)
    /\ IsDict(Get(fetched.payload, W("quoteResponse")))
    /\ IsList(Get(Get(fetched.payload, W("quoteResponse")), W("result")))
    /\ \E i \in 1..Len(Get(Get(fetched.payload, W("quoteResponse")), W("result")).xs) :
          LET item == Get(Get(fetched.payload, W("quoteResponse")), W("result")).xs[i] IN
          Truthy(Get(item, W("symbol"))) /\ Get(item, W("symbol")) = Get(row, W("symbol"))

\* the field of the i-th row was changed by enrich_rows
Changed(i, key) ==
    \/ Get(enriched[i], key) # Get(rows_data[i], key)
    \/ HasKey(enriched[i], key) # HasKey(rows_data[i], key)

\* C18: enrich_rows keeps the number and the order of the rows, changes nothing but
\* the currency and the market_cap of rows whose symbol has a fetched quote, changes
\* such a field only when it is empty in the row, and its enriched_currency and
\* enriched_market_cap statistics are the numbers of fields filled.
C18_FillsOnlyEmpty ==
    mode = "enrich" /\ pc = "returned" =>
        /\ Len(enriched) = Len(rows_data)
        /\ \A i \in 1..Len(rows_data) :
              /\ \A key \in {W("symbol"), W("name"), W("price"), W("exchange")} :
                    ~Changed(i, key)
              /\ \A key \in {W("currency"), W("market_cap")} :
                    Changed(i, key) => HasQuote(rows_data[i]) /\ EmptyField(rows_data[i], key)
        /\ enrich_stats.enriched_currency
              = Cardinality({i \in 1..Len(rows_data) : Changed(i, W("currency"))})
        /\ enrich_stats.enriched_market_cap
              = Cardinality({i \in 1..Len(rows_data) : Changed(i, W("market_cap"))})

-----------------------------------------------------------------------------
(* C16: run_crawl falls back to the page exactly when the feed gave no row *)

\* the feed was asked and raised or returned zero rows
FeedGaveNothing ==
    /\ feed_result # None
    /\ feed_result.kind = "raised" \/ feed_result.rows = <<>>

\* the feed was asked and returned at least one row
FeedGaveRows ==
    /\ feed_result # None
    /\ feed_result.kind = "rows"
    /\ feed_result.rows # <<>>

\* extract_embedded_state, extract_quotes or the runtime state has been used
EmbeddedPathTaken == attempted # <<>> \/ tried # <<>> \/ state # None

\* run_crawl is past the choice of line 110
PastFeed == mode = "run" /\ pc \notin {"run_open", "run_seed", "run_feed", "next_data"}

\* the embedded path is taken iff the feed gave nothing; with rows from the feed the
\* source is screener_api and the page is never parsed; the error of the feed is not
\* the error that leaves run_crawl
FallbackRule ==
    /\ mode = "run" /\ EmbeddedPathTaken => FeedGaveNothing
    /\ PastFeed /\ FeedGaveNothing => EmbeddedPathTaken
    /\ mode = "run" /\ FeedGaveRows =>
           crawl_source = "screener_api" /\ ~EmbeddedPathTaken
    /\ mode = "run" /\ feed_result # None /\ feed_result.kind = "raised"
           /\ raised # None => EmbeddedPathTaken /\ raised \in {err, UnicodeEncodeError}

\* the two lists of rows agree on every field but those of names
SameBut(rs, qs, names) ==
    /\ Len(rs) = Len(qs)
    /\ \A i \in 1..Len(rs) :
          /\ Len(rs[i].kv) = Len(qs[i].kv)
          /\ \A k \in 1..Len(rs[i].kv) :
                /\ rs[i].kv[k][1] = qs[i].kv[k][1]
                /\ rs[i].kv[k][1] \notin names => rs[i].kv[k][2] = qs[i].kv[k][2]

\* C16 as stated: the fallback rule, and with at least one row from the feed the rows
\* handed to the CSV writer are exactly the rows of the feed
C16_Original ==
    /\ FallbackRule
    /\ mode = "run" /\ FeedGaveRows /\ pc \in {"run_write", "run_done", "run_failed"}
           => rows_data = feed_result.rows

\* C16 amended: the fallback rule, and with at least one row from the feed the rows
\* handed to the CSV writer are the rows of the feed, in order, equal to them in every
\* field but currency and market_cap, which the enrichment step may have filled
C16_FeedRowsUpToEnrichment ==
    /\ FallbackRule
    /\ mode = "run" /\ FeedGaveRows /\ pc \in {"run_write", "run_done", "run_failed"}
           => SameBut(rows_data, feed_result.rows, {W("currency"), W("market_cap")})

\* the feed gave rows, the enrichment step changed one, and the CSV was written
C16_Witness ==
    /\ mode = "run"
    /\ pc = "run_done"
    /\ FeedGaveRows
    /\ rows_data # feed_result.rows
    /\ crawl_source = "screener_api"
    /\ csv # None

-----------------------------------------------------------------------------
(* C17: a run that ends in an error leaves no CSV file *)

\* C17: whenever an error has left run_crawl the CSV file was never opened
C17_NoCsvOnFatal == mode = "run" /\ raised # None => csv = None

-----------------------------------------------------------------------------
(* C19: fetch_all keeps one row per symbol, the first *)

SymbolAt(ns, i) == Get(ns[i], W("symbol"))

\* the item at index i of the page gave a row whose symbol occurred before, on an
\* earlier page (sn) or earlier on this page
LaterOccurrence(sn, ns, i) ==
    /\ Truthy(ns[i])
    /\ \/ SymbolAt(ns, i) \in SeenSymbols(sn)
       \/ \E j \in 1..(i - 1) : Truthy(ns[j]) /\ SymbolAt(ns, j) = SymbolAt(ns, i)

FirstOccurrences(sn, ns) ==
    {i \in 1..Len(ns) : Truthy(ns[i]) /\ ~LaterOccurrence(sn, ns, i)}

DistinctSymbols(sn) ==
    \A i, j \in 1..Len(sn) : i # j => Get(sn[i], W("symbol")) # Get(sn[j], W("symbol"))

\* C19: every page leaves the rows collected so far as they are, appends the row of
\* each first occurrence of a symbol in page order, adds one to duplicates for each
\* later occurrence, and keeps the symbols pairwise distinct; the rows returned are
\* these rows and unique_symbols is their number
C19_FirstOccurrenceKept ==
    [][mode = "feed" /\ pc = "fetch" /\ pc' # "feed_failed" =>
        LET firsts == FirstOccurrences(seen, normalized')
            laters == {i \in 1..Len(normalized') : LaterOccurrence(seen, normalized', i)}
            returned == FetchAllReturn(seen', fstats')
        IN  /\ Len(seen') = Len(seen) + Cardinality(firsts)
            /\ SubSeq(seen', 1, Len(seen)) = seen
            /\ \A i \in firsts :
                  seen'[Len(seen) + Cardinality({j \in firsts : j <= i})] = normalized'[i]
            /\ fstats'.duplicates = fstats.duplicates + Cardinality(laters)
            /\ DistinctSymbols(seen')
            /\ returned[1] = seen'
            /\ returned[2].unique_symbols = Len(returned[1])
            /\ returned[2].duplicates = fstats'.duplicates]_vars

\* two pages were read, the second repeated a symbol of the first with another row and
\* a symbol of its own
C19_Witness ==
    /\ mode = "feed"
    /\ pc = "feed_done"
    /\ fstats.pages = 2
    /\ fstats.duplicates >= 2
    /\ Len(seen) >= 2
    /\ \E i \in 1..Len(normalized) : \E k \in 1..Len(seen) :
          /\ Truthy(normalized[i])
          /\ SymbolAt(normalized, i) = Get(seen[k], W("symbol"))
          /\ normalized[i] # seen[k]

-----------------------------------------------------------------------------
(* C20: the pages fetch_all asks for *)

\* fetch_all returns or raises
FetchAllTerminates == (mode = "feed") ~> (pc \in {"feed_done", "feed_failed"})

\* one request of fetch_all: its offset is the number of pages before it times count,
\* no more than max_pages requests are made, pages counts the requests, and the loop
\* goes on to a next request only after a page that was full, brought a new symbol and
\* ends below the total when the total is known
PagingStep(exactly_full) ==
    mode = "feed" /\ pc = "fetch" =>
        /\ requested' = Append(requested, Len(requested) * count)
        /\ Len(requested') <= max_pages
        /\ pc' # "feed_failed" => fstats'.pages = Len(requested')
        /\ pc' = "fetch" =>
              /\ IF exactly_full THEN Len(records') = count ELSE Len(records') >= count
              /\ Len(seen') > Len(seen)
              /\ fstats'.total_expected # None =>
                    requested'[Len(requested')] + count < fstats'.total_expected.n

\* C20 as stated: fetch_all terminates, asks for the offsets 0, count, 2*count, ...,
\* at most max_pages of them, asks for a next page only after a page of exactly count
\* items with a new symbol that ends below the known total, and pages is the number
\* of requests
C20_Original == [][PagingStep(TRUE)]_vars /\ FetchAllTerminates

\* C20 amended: the same, with a next page asked for only after a page of at least
\* count items
C20_PagingTerminates == [][PagingStep(FALSE)]_vars /\ FetchAllTerminates

\* a page of more than count items was followed by a second request, at offset count,
\* which gave an empty page; pages counts both
C20_Witness ==
    /\ mode = "feed"
    /\ pc = "feed_done"
    /\ requested = <<0, count>>
    /\ records = <<>>
    /\ fstats.total_items = count + 1
    /\ fstats.pages = 2

-----------------------------------------------------------------------------
(* C21: the elements of the list extract_quotes returns *)

\* C21 as stated: every element of the list returned by extract_quotes is a mapping
\* with a non-empty symbol or ticker
C21_Original ==
    mode = "html" /\ Returned => \A i \in 1..Len(quotes) : SymbolBearing(quotes[i])

\* C21 amended: the list returned by extract_quotes is the chosen list as it stands in
\* the state (the values of the chosen mapping), with at least one element that is a
\* mapping with a non-empty symbol or ticker; its other elements are not filtered out
C21_SomeElementIsAQuote ==
    mode = "html" /\ Returned =>
        /\ \E i \in 1..Len(quotes) : SymbolBearing(quotes[i])
        /\ quotes = best.list
        /\ \E n \in NodesAt(state, <<>>) :
              \/ IsList(n[2]) /\ n[2].xs = quotes
              \/ IsDict(n[2]) /\ Values(n[2]) = quotes

\* a list was returned that holds a quote and an element that is not a mapping
C21_Witness ==
    /\ mode = "html"
    /\ Returned
    /\ \E i \in 1..Len(quotes) : SymbolBearing(quotes[i])
    /\ \E i \in 1..Len(quotes) : ~IsDict(quotes[i])

-----------------------------------------------------------------------------
(* C22 and C23: the score of a candidate list *)

\* the field normalizes to a non-null value
NormalizesToValue(el, key) ==
    LET v == Get(el, W(key)) IN
    IF IsDict(v) /\ HasKey(v, W("raw")) THEN Get(v, W("raw")) # None
    ELSE IF IsDict(v) /\ HasKey(v, W("fmt")) THEN Get(v, W("fmt")) # None
    ELSE v # None

\* what one element adds to the score
ElementPoints(el) ==
    IF ~SymbolBearing(el) THEN 0
    ELSE 2 + (IF NormalizesToValue(el, "regularMarketPrice") THEN 1 ELSE 0)
           + (IF NormalizesToValue(el, "marketCap") THEN 1 ELSE 0)

RECURSIVE ElementSum(_)
ElementSum(xs) == IF xs = <<>> THEN 0 ELSE ElementPoints(Head(xs)) + ElementSum(Tail(xs))

\* some str segment of the path holds the word
SegmentContains(path, word) ==
    \E p \in 1..Len(path) :
        IsKeyPart(path[p]) /\ \E a \in 1..Len(path[p].k) : path[p].k[a] = word

\* some str segment of the path is the word
SegmentIs(path, word) == \E p \in 1..Len(path) : path[p] = K(word)

ContainsBonus(path) ==
    (IF SegmentContains(path, "Screener") THEN 10 ELSE 0)
    + (IF SegmentContains(path, "quotes") THEN 5 ELSE 0)
    + (IF SegmentContains(path, "results") THEN 2 ELSE 0)

LiteralBonus(path) ==
    (IF SegmentContains(path, "Screener") THEN 10 ELSE 0)
    + (IF SegmentIs(path, "quotes") THEN 5 ELSE 0)
    + (IF SegmentIs(path, "results") THEN 2 ELSE 0)

\* the lists of the state, each with its path
ListNodes(st) == {n \in NodesAt(st, <<>>) : IsList(n[2])}

\* C22: the score of a list is 0 when it is empty or no element has a non-empty
\* symbol or ticker, whatever its path; otherwise its element part, the score less
\* the bonus of the path, is the sum over the elements with a non-empty symbol or
\* ticker of 2, plus 1 for a regularMarketPrice that normalizes to a non-null value,
\* plus 1 for such a marketCap; the other elements add nothing
C22_ElementScore ==
    Finished =>
        /\ \A n \in ListNodes(state) :
              LET score == _score_quote_list(n[2].xs, n[1]) IN
              IF \A i \in 1..Len(n[2].xs) : ~SymbolBearing(n[2].xs[i])
              THEN score = 0
              ELSE score - ContainsBonus(n[1]) = ElementSum(n[2].xs)
        /\ Returned => best.score - ContainsBonus(best.path) = ElementSum(best.list)

\* the list returned holds a quote with the two fields, one with none of them and an
\* element that is not a mapping
C22_Witness ==
    /\ mode = "html"
    /\ Returned
    /\ \E i \in 1..Len(quotes) : ElementPoints(quotes[i]) = 4
    /\ \E i \in 1..Len(quotes) : ElementPoints(quotes[i]) = 3
    /\ \E i \in 1..Len(quotes) : ~IsDict(quotes[i])
    /\ best.score - ContainsBonus(best.path) = 7

\* the lists of the state that score above 0
ScoredLists(st) == {n \in ListNodes(st) : _score_quote_list(n[2].xs, n[1]) > 0}

\* C23 as stated: the bonus of a list that scores above 0 is 10 when a segment of its
\* path contains Screener, plus 5 exactly when a segment is quotes, plus 2 exactly
\* when a segment is results
C23_Original ==
    Finished =>
        \A n \in ScoredLists(state) :
            _score_quote_list(n[2].xs, n[1]) - ElementSum(n[2].xs) = LiteralBonus(n[1])

\* C23 amended: the bonus of a list that scores above 0 is 10 when a str segment of
\* its path contains Screener, plus 5 when one contains quotes, plus 2 when one
\* contains results, each at most once, and the index segments change nothing
C23_PathBonus ==
    Finished =>
        /\ \A n \in ScoredLists(state) :
              LET bonus == _score_quote_list(n[2].xs, n[1]) - ElementSum(n[2].xs) IN
              /\ bonus = ContainsBonus(n[1])
              /\ bonus \in {0, 2, 5, 7, 10, 12, 15, 17}
              /\ _score_quote_list(n[2].xs, SelectSeq(n[1], IsKeyPart))
                    = _score_quote_list(n[2].xs, n[1])
        /\ Returned => best.score - ElementSum(best.list) = ContainsBonus(best.path)

\* the list returned sits under a key that contains quotes and is not quotes, and got
\* the 5 of quotes
C23_Witness ==
    /\ mode = "html"
    /\ Returned
    /\ SegmentContains(best.path, "quotes")
    /\ ~SegmentIs(best.path, "quotes")
    /\ best.score - ElementSum(best.list) = 5

-----------------------------------------------------------------------------
(* C24: the scripts the JSON-script convention reads *)

\* the script carries the marker attribute
Marked(tag) == HasKey(tag[1], W("data-sveltekit-fetched"))

\* what the convention gives when it reads the marked scripts only
FromMarkedScripts(page_source) ==
    LET entries == EntriesOf(SelectSeq(_iter_script_tags(page_source), Marked)) IN
    IF entries = <<>> THEN None
    ELSE IF _pick_best_state(entries) # None THEN _pick_best_state(entries)
    ELSE Dict(<< <<W("__sveltekit__"), List(entries)>> >>)

\* C24: the JSON-script convention reads only the JSON-typed scripts that carry the
\* marker attribute: what it returns, state or wrapper, is made of these scripts alone,
\* and with none of them it gives nothing and YAHOO.context is tried
C24_OnlyMarkedScripts ==
    mode = "page" /\ attempted # <<>> /\ attempted[Len(attempted)] = "sveltekit" =>
        IF FromMarkedScripts(page) = None THEN pc = "yahoo_context"
        ELSE pc = "located" /\ located = FromMarkedScripts(page)

-----------------------------------------------------------------------------
(* C25: the depth limit of _find_quote_lists *)

\* the traversal returns
WalkTerminates == (mode = "walk") ~> (pc = "returned")

\* no node more than max_depth segments from the root was expanded, the base path
\* counted in, no candidate lies more than one segment deeper, and what is returned
\* is what _find_quote_lists gives in one piece
WalkBounded ==
    mode = "walk" =>
        /\ \A i \in 1..Len(expanded) :
              /\ Len(expanded[i]) <= max_depth
              /\ Len(expanded[i]) - Len(walk_base) <= max_depth
        /\ \A i \in 1..Len(walk_found) :
              /\ Len(walk_found[i].path) <= max_depth + 1
              /\ Len(walk_found[i].path) - Len(walk_base) <= max_depth + 1
        /\ pc = "returned" => walk_found = _find_quote_lists(state, walk_base)

\* C25: the traversal of a finite tree ends; it expands no node whose path is longer
\* than max_depth segments and reports no candidate more than one segment deeper,
\* whatever base path it was started with
C25_DepthBounded == []WalkBounded /\ WalkTerminates

\* a traversal started with a base path of three segments has returned without the
\* list of quotes that lies max_depth + 2 segments deep, base path counted in
C25_Witness ==
    /\ mode = "walk"
    /\ pc = "returned"
    /\ Len(walk_base) = 3
    /\ walk_found = <<>>
    /\ Len(expanded) = max_depth - 2
    /\ \E n \in SymbolLists(state) : Len(n[1]) + Len(walk_base) = max_depth + 2

-----------------------------------------------------------------------------
(* C26: the retry loop of _request_with_retry *)

Retryable(transport) ==
    \/ transport.kind = "exception"
    \/ transport.kind = "response" /\ transport.status_code \in {429, 503}

\* C26: at most max_attempts attempts are made; every attempt that was followed by
\* another was a transport exception or a 429/503 response; there is one sleep
\* between consecutive attempts and none after the last; the call ends by returning:
\* a response of another status at once, the 429/503 response of the last attempt,
\* or None when the last attempt raised
C26_RetryContract ==
    mode = "retry" =>
        /\ Len(responses) <= max_attempts
        /\ \A i \in 1..(Len(responses) - 1) : Retryable(responses[i])
        /\ pc = "call" => sleeps = Len(responses)
        /\ pc # "call" =>
              /\ pc = "returned"
              /\ responses # <<>> =>
                    /\ sleeps = Len(responses) - 1
                    /\ LET last == responses[Len(responses)] IN
                          /\ last.kind = "exception" =>
                                retry_result = None /\ Len(responses) = max_attempts
                          /\ last.kind = "response" =>
                                /\ retry_result = last
                                /\ Retryable(last) => Len(responses) = max_attempts

-----------------------------------------------------------------------------
(* C27: fetch_all gives all pages or nothing *)

\* the page requests that fail: no response, a status other than 200, a body that is
\* not JSON, a payload without the list of records
FailedResponses ==
    {response \in FeedResponses :
        \/ response.kind \in {"none", "status", "badjson"}
        \/ response.kind = "ok" /\ _extract_items(response.payload) = Raises}

\* a failed page request makes fetch_all raise, whatever it has collected
FailedPageRaises ==
    (\E response \in FailedResponses : FetchAllPage(response))
        => (pc' = "feed_failed" /\ err'.kind = "FeedError")

\* after fetch_all raised, run_crawl has no row and is at the state of the page
NothingKept ==
    (mode = "run" /\ feed_result # None /\ feed_result.kind = "raised") =>
        /\ rows_data = <<>>
        /\ crawl_source = "html"
        /\ pc = "next_data"

\* C27: every failed page request makes fetch_all raise instead of returning, the rows
\* of the earlier pages are not given to run_crawl, and run_crawl goes on to the state
\* of the page with no row at all
C27_AllOrNothing == [][FailedPageRaises]_vars /\ []NothingKept

\* fetch_all had rows from an earlier page when a later page failed, and run_crawl is
\* at the state of the page without them
C27_Witness ==
    /\ mode = "run"
    /\ feed_result # None /\ feed_result.kind = "raised"
    /\ seen # <<>>
    /\ Len(requested) >= 2
    /\ rows_data = <<>>
    /\ pc = "next_data"

-----------------------------------------------------------------------------
(* C28: the driver is closed once *)

\* run_crawl has returned or is raising to its caller
LeftRunCrawl == mode = "run" /\ pc = "left"

\* driver.quit() has been called once when run_crawl is left and not before
QuitOnce ==
    mode = "run" => quits = (IF pc = "left" THEN 1 ELSE 0)

\* the finally clause leaves what run_crawl raises as it was, whether quit() raised
QuitErrorDropped == pc' = "left" => raised' = raised

\* C28: whichever step ended the try block, by its end or by an error of the browser,
\* of the seed, of the state, of the quotes or of the CSV writer, driver.quit() is called
\* exactly once before run_crawl is left, and an error of quit() does not leave run_crawl
C28_DriverQuitOnce == []QuitOnce /\ [][QuitErrorDropped]_vars

\* the CSV writer raised, driver.quit() raised as well, and run_crawl is left raising
\* the error of the writer
C28_Witness ==
    /\ LeftRunCrawl
    /\ quits = 1
    /\ quit_failed
    /\ raised = UnicodeEncodeError
    /\ csv # None

-----------------------------------------------------------------------------
(* C29: the region filter of the criteria that are POSTed *)

\* query.operands of the body holds the eq operand of the region r
FiltersByRegion(body, r) ==
    /\ IsDict(body)
    /\ IsDict(Get(body, W("query")))
    /\ IsList(Get(Get(body, W("query")), W("operands")))
    /\ \E k \in 1..Len(Get(Get(body, W("query")), W("operands")).xs) :
          Get(Get(body, W("query")), W("operands")).xs[k] = RegionOperand(r)

\* C29: every body POSTed by fetch_page holds, in query.operands, the eq operand of the
\* lower-cased normalized region of the client, whatever criteria the client was built
\* with, and carries the size of the page
C29_RegionFilterPosted ==
    mode = "client" =>
        \A i \in 1..Len(posted) :
            posted[i].method = "POST" =>
                /\ FiltersByRegion(posted[i].body, lower(client.region))
                /\ Get(posted[i].body, W("size")) = Num(count)

-----------------------------------------------------------------------------
(* C30: the seed script is parsed without an error *)

\* C30: for a page whose seed script encodes no criteria object, whatever the shape of
\* its body, extract_screener_seed raises nothing and returns a pair whose criteria
\* are None
C30_SeedNeverRaises ==
    (mode = "seed" /\ pc = "returned" /\ raw_criteria = None) =>
        /\ seed # AttributeError
        /\ seed[2] = None

====
